---------------------------- MODULE Spec2Model ----------------------------
(***************************************************************************)
(* A model of news_poster.py: the monthly API quota ledger, the posted-URL *)
(* log, the posting cooldown, the retrying publish step and the 30-second  *)
(* scheduler loop that drives them.                                        *)
(*                                                                         *)
(* Time is the wall clock in whole seconds since 2024-04-01 00:00:00 UTC,  *)
(* the start of month 0.  The clock advances where the code sleeps          *)
(* (time.sleep) and between two readings of the clock in one tick.         *)
(***************************************************************************)
EXTENDS Integers, Sequences, FiniteSets, TLC

VARIABLES
    now,                  \* datetime.now(pytz.UTC), in seconds
    quota,                \* quota_manager.quota (in memory)
    quota_file,           \* api_quota.json: <<>> when absent, else <<record>>
    last_call,            \* the last APIQuotaManager call: op, count, time, result
    calls,                \* number of direct quota calls made (bounded)
    posted_log,           \* content of posted_links.txt, a sequence of characters
    last_post_time,       \* global last_post_time, None or seconds
    performance_data,     \* learning_system.performance_data
    insights,             \* learning_system.insights
    last_checked_minute,  \* local of start_learning_scheduler
    pc,                   \* where the scheduler thread is
    job,                  \* locals of the running job and post call
    disk,                 \* tweet_performance.json and learning_insights.json
    health,               \* the health server thread: where it is, its locals
    reply_system,         \* reply_system.reply_log, replied_tweets.json and
                          \* the locals of execute_reply_campaign
    hist                  \* history of the run, read by the properties only

vars == <<now, quota, quota_file, last_call, calls, posted_log, last_post_time,
          performance_data, insights, last_checked_minute, pc, job, disk,
          health, reply_system, hist>>

---------------------------------------------------------------------------
(* Program constants *)

READ_CAP == 100
WRITE_CAP == 500
POST_INTERVAL_MINUTES == 90
TICK_SLEEP == 30
max_retries_one_more == 3 + 1
max_retries == 3
initial_retry_delay == 5
min_tweets_for_learning == 10
BATCH_MAX == 100
None == -1

(* Calendar: a day has 86400 seconds.  Second 0 of the clock is 00:00:00 *)
(* UTC of the first day of the month Epoch; months have their calendar    *)
(* lengths.                                                               *)
DAY_SECONDS == 86400
Epoch == [year |-> 2024, month |-> 4]

(* Bounds of the model *)
MaxCount == 2          \* use_read/use_write are called with count in 1..MaxCount
MaxCalls == 6          \* direct quota calls explored per run
QuotaSpan == 60        \* seconds explored on each side of the month boundary

Counts == 1..MaxCount

---------------------------------------------------------------------------
(* Clock formatting *)

\* the day number (days since 1970-01-01) of day d of month m of year y in
\* the proleptic Gregorian calendar, the calendar of datetime
days_from_civil(y, m, d) ==
    LET yy == IF m <= 2 THEN y - 1 ELSE y
        era == yy \div 400
        yoe == yy - era * 400
        mp == IF m > 2 THEN m - 3 ELSE m + 9
        doy == (153 * mp + 2) \div 5 + d - 1
        doe == yoe * 365 + yoe \div 4 - yoe \div 100 + doy
    IN  era * 146097 + doe - 719468

\* the year and the month (1..12) of day number z
civil_from_days(z) ==
    LET zz == z + 719468
        era == zz \div 146097
        doe == zz - era * 146097
        yoe == (doe - doe \div 1460 + doe \div 36524 - doe \div 146096) \div 365
        doy == doe - (365 * yoe + yoe \div 4 - yoe \div 100)
        mp == (5 * doy + 2) \div 153
        m == IF mp < 10 THEN mp + 3 ELSE mp - 9
    IN  [year |-> yoe + era * 400 + (IF m <= 2 THEN 1 ELSE 0), month |-> m]

EpochDay == days_from_civil(Epoch.year, Epoch.month, 1)

\* strftime("%Y-%m"): the month key, as the number of calendar months
\* between the month Epoch and the month of second t
MonthOf(t) ==
    LET c == civil_from_days(EpochDay + t \div DAY_SECONDS)
    IN  (c.year * 12 + c.month) - (Epoch.year * 12 + Epoch.month)

\* the first second of the month whose key is k
MonthStart(k) ==
    LET n == Epoch.year * 12 + Epoch.month - 1 + k
    IN  DAY_SECONDS * (days_from_civil(n \div 12, (n % 12) + 1, 1) - EpochDay)

\* strftime("%H:%M"): the minute of the day, 0..1439 (hour * 60 + minute)
HHMM(t) == (t \div 60) % 1440

---------------------------------------------------------------------------
(* APIQuotaManager *)

FreshQuota(t) == [month |-> MonthOf(t), reads_used |-> 0, writes_used |-> 0]

\* the content of a file json.load cannot parse, an empty or cut-off one
Unreadable == [unreadable |-> TRUE]

\* load_quota: the quota in memory and the file after construction at time t
load_quota(file, t) ==
    IF file = <<Unreadable>>
    THEN [quota |-> FreshQuota(t), file |-> file]
    ELSE IF file # <<>>
    THEN IF file[1].month # MonthOf(t)
         THEN [quota |-> FreshQuota(t), file |-> <<FreshQuota(t)>>]
         ELSE [quota |-> file[1], file |-> file]
    ELSE [quota |-> FreshQuota(t), file |-> <<FreshQuota(t)>>]

can_read(q, count) == (q.reads_used + count) <= READ_CAP

can_write_no_count(q, count) == q.writes_used <= WRITE_CAP
can_write(q, count) == (q.writes_used + count) <= WRITE_CAP

\* use_read: the quota after the call (unchanged when it returns False)
use_read(q, count) ==
    IF can_read(q, count) THEN [q EXCEPT !.reads_used = @ + count] ELSE q

use_write_clamped(q, count) ==
    IF can_write(q, count) THEN [q EXCEPT !.writes_used = @ + count]
    ELSE [q EXCEPT !.writes_used = WRITE_CAP]

\* use_write: the quota after the call (unchanged when it returns False)
use_write(q, count) ==
    IF can_write(q, count) THEN [q EXCEPT !.writes_used = @ + count] ELSE q

\* save_quota runs only when the debit was made
save_after(q, q2, file) == IF q2 # q THEN <<q2>> ELSE file

\* What a write of a file can come to: "ok"; "refused", open() raises and the
\* file stays as it was; "cut", the write breaks off after open() emptied
\* the file
SaveOutcomes == {"ok", "refused", "cut"}

\* the file after `with open(file, 'w') as f: json.dump(value, f)`
written(file, value, outcome) ==
    IF outcome = "ok" THEN <<value>>
    ELSE IF outcome = "refused" THEN file
    ELSE <<Unreadable>>

quota_after_failed_save_rolled_back(q, q2) == q

\* self.quota after save_quota caught the exception of a failed write
\* (lines 104-105): the debit q -> q2 made in memory stays
quota_after_failed_save(q, q2) == q2

quota_after_status_counted(q) == use_read(q, 1)

\* the quota after get_quota_status returned: it assigns nothing
quota_after_status(q) == q

\* the keys of the dict get_quota_status builds, in the order their values
\* are evaluated
StatusKeys ==
    <<"reads_remaining", "writes_remaining", "reads_used", "writes_used", "month">>

get_quota_status(q) ==
    [reads_remaining |-> READ_CAP - q.reads_used,
     writes_remaining |-> WRITE_CAP - q.writes_used,
     reads_used |-> q.reads_used,
     writes_used |-> q.writes_used,
     month |-> q.month]

NoCall ==
    [op |-> "none", count |-> 0, at |-> None, result |-> FALSE,
     reads_before |-> 0, writes_before |-> 0]

---------------------------------------------------------------------------
(* State shared by every specification: nothing posted, scheduler not started *)

NoJob ==
    [current_minute |-> None, category |-> "", is_backup |-> FALSE,
     current_time |-> None, article |-> <<>>, attempt |-> 0,
     retry_delay |-> 0, result |-> "none", step |-> 0, analysis_ran |-> FALSE]

\* load_performance_data without a file
NoPerformanceData == [tweets |-> <<>>, last_analysis |-> None, total_analyzed |-> 0]

\* load_learning_insights without a file (the dicts the model reads);
\* time_slot_keys is list(time_slot_performance), the keys in the order in
\* which the dict holds them
NoInsights ==
    [category_performance |-> <<>>, time_slot_performance |-> <<>>,
     time_slot_keys |-> <<>>,
     emoji_impact |-> <<>>, cta_effectiveness |-> <<>>]

NoHist ==
    [writes_at_start |-> 0, published |-> 0, logged |-> {},
     last_success_at |-> None, jobs_started |-> <<>>,
     publish_calls |-> 0, sleeps |-> <<>>, last_outcome |-> "none",
     writes_at_entry |-> 0, exhausted |-> "none", exhausted_minute |-> None,
     log_at_entry |-> <<>>, events |-> <<>>, confirmed |-> <<>>,
     crashes |-> 0, crash_gap |-> <<>>, fetches |-> <<>>, pass |-> <<>>,
     faults |-> 0, replies |-> <<>>, published_at_job |-> 0,
     stamp_at_entry |-> None, records_at_entry |-> <<>>, lagged |-> 0]

\* load_performance_data: no file or an unreadable one gives the default
load_performance_data(file) ==
    IF file = <<>> \/ file = <<Unreadable>> THEN NoPerformanceData ELSE file[1]

\* load_learning_insights: no file or an unreadable one gives the default
load_learning_insights(file) ==
    IF file = <<>> \/ file = <<Unreadable>> THEN NoInsights ELSE file[1]

\* neither learner file exists
NoDisk == [performance |-> <<>>, insights |-> <<>>]

\* the files from which load_performance_data and load_learning_insights
\* load pd and ins: no file where the value is the default
FilesOf(pd, ins) ==
    [performance |-> IF pd = NoPerformanceData THEN <<>> ELSE <<pd>>,
     insights |-> IF ins = NoInsights THEN <<>> ELSE <<ins>>]

\* save_performance_data and save_learning_insights, the write succeeding
save_performance_data(d, pd) == [d EXCEPT !.performance = <<pd>>]
save_learning_insights(d, ins) == [d EXCEPT !.insights = <<ins>>]

\* load_reply_log without a file, lines 819-823: the date of time t as a
\* day number, nothing replied to
NoReplyLog(t) ==
    [date |-> t \div DAY_SECONDS, today_count |-> 0, replied_ids |-> <<>>]

\* the reply system of a process started on day 0 without replied_tweets.json
NoReplySystem ==
    [reply_log |-> NoReplyLog(0), file |-> <<>>,
     run |-> [pc |-> "idle", search |-> 0, tweets |-> <<>>, tweet |-> 0]]

\* the health thread between two requests
NoHealth == [pc |-> "idle", quota_status |-> <<>>, response |-> <<>>, requests |-> 0]

IdleRest ==
    /\ disk = NoDisk
    /\ health = NoHealth
    /\ reply_system = NoReplySystem
    /\ posted_log = <<>>
    /\ last_post_time = None
    /\ performance_data = NoPerformanceData
    /\ insights = NoInsights
    /\ last_checked_minute = None
    /\ pc = "idle"
    /\ job = NoJob
    /\ hist = NoHist

botVars == <<posted_log, last_post_time, performance_data, insights,
             last_checked_minute, pc, job, disk, health, reply_system, hist>>

---------------------------------------------------------------------------
(* SpecQuota: the APIQuotaManager alone.  A process constructs the manager *)
(* from whatever api_quota.json holds, then calls can_read, can_write,     *)
(* use_read and use_write in any order while the clock runs across the end *)
(* of month 1; a restarted process constructs a new manager.               *)

QuotaStart == MonthStart(2) - QuotaSpan
QuotaEnd == MonthStart(2) + QuotaSpan

\* api_quota.json as earlier runs can have left it
QuotaFiles ==
    {<<>>} \cup
    {<<[month |-> m, reads_used |-> r, writes_used |-> w]>> :
        m \in {0, 1},
        r \in {0, READ_CAP - 1, READ_CAP},
        w \in {0, WRITE_CAP - 1, WRITE_CAP}}

InitQuota ==
    /\ now = QuotaStart
    /\ \E f \in QuotaFiles :
          /\ quota = load_quota(f, now).quota
          /\ quota_file = load_quota(f, now).file
    /\ last_call = NoCall
    /\ calls = 0
    /\ IdleRest

Called(op, count, result) ==
    /\ calls < MaxCalls
    /\ calls' = calls + 1
    /\ last_call' = [op |-> op, count |-> count, at |-> now, result |-> result,
                     reads_before |-> quota.reads_used,
                     writes_before |-> quota.writes_used]

CanRead(count) ==
    /\ Called("can_read", count, can_read(quota, count))
    /\ UNCHANGED <<now, quota, quota_file, botVars>>

CanWrite(count) ==
    /\ Called("can_write", count, can_write(quota, count))
    /\ UNCHANGED <<now, quota, quota_file, botVars>>

UseRead(count) ==
    /\ Called("use_read", count, can_read(quota, count))
    /\ quota' = use_read(quota, count)
    /\ quota_file' = save_after(quota, quota', quota_file)
    /\ UNCHANGED <<now, botVars>>

UseWrite(count) ==
    /\ Called("use_write", count, can_write(quota, count))
    /\ quota' = use_write(quota, count)
    /\ quota_file' = save_after(quota, quota', quota_file)
    /\ UNCHANGED <<now, botVars>>

\* the wall clock runs on while the process does
ClockAdvance ==
    /\ now + TICK_SLEEP <= QuotaEnd
    /\ now' = now + TICK_SLEEP
    /\ UNCHANGED <<quota, quota_file, last_call, calls, botVars>>

\* the process is started again: APIQuotaManager.__init__ loads the file
RestartQuota ==
    /\ calls < MaxCalls
    /\ calls' = calls + 1
    /\ quota' = load_quota(quota_file, now).quota
    /\ quota_file' = load_quota(quota_file, now).file
    /\ last_call' = NoCall
    /\ UNCHANGED <<now, botVars>>

NextQuota ==
    \/ \E c \in Counts : CanRead(c)
    \/ \E c \in Counts : CanWrite(c)
    \/ \E c \in Counts : UseRead(c)
    \/ \E c \in Counts : UseWrite(c)
    \/ ClockAdvance
    \/ RestartQuota

SpecQuota == InitQuota /\ [][NextQuota]_vars

---------------------------------------------------------------------------
(* Properties of the quota manager, checked under SpecQuota *)

\* C1: whatever use_read/use_write calls (count >= 1) are made, reads_used
\* never exceeds 100 and writes_used never exceeds 500, and within one
\* period (the month key unchanged) neither counter ever decreases.
C1_QuotaWithinCapsAndMonotone ==
    /\ [](quota.reads_used <= 100 /\ quota.writes_used <= 500)
    /\ [][quota'.month = quota.month =>
            /\ quota'.reads_used >= quota.reads_used
            /\ quota'.writes_used >= quota.writes_used]_vars

\* a use_write(1) that succeeded and filled the write quota to its cap
C1_Witness ==
    /\ last_call.op = "use_write"
    /\ last_call.count = 1
    /\ last_call.result
    /\ quota.writes_used = 500
    /\ quota.month = MonthOf(now)

\* C2: a use_read/use_write that would push its counter past the cap returns
\* False and leaves both counters as they were (no partial debit); from
\* writes_used = 499, use_write(1) succeeds giving 500, and at 500 it fails
\* leaving 500.
C2_RejectedDebitChangesNothing ==
    /\ last_call.op = "use_read" /\ last_call.reads_before + last_call.count > 100 =>
          /\ ~last_call.result
          /\ quota.reads_used = last_call.reads_before
          /\ quota.writes_used = last_call.writes_before
    /\ last_call.op = "use_write" /\ last_call.writes_before + last_call.count > 500 =>
          /\ ~last_call.result
          /\ quota.reads_used = last_call.reads_before
          /\ quota.writes_used = last_call.writes_before
    /\ last_call.op = "use_write" /\ last_call.count = 1 =>
          /\ last_call.writes_before = 499 =>
                last_call.result /\ quota.writes_used = 500
          /\ last_call.writes_before = 500 =>
                ~last_call.result /\ quota.writes_used = 500

\* a use_write(2) at 499 was rejected, after at least one earlier call
C2_Witness ==
    /\ last_call.op = "use_write"
    /\ last_call.count = 2
    /\ last_call.writes_before = 499
    /\ ~last_call.result
    /\ calls >= 2

\* C3: every can_read/can_write/use_read/use_write call is evaluated against
\* the calendar month of the moment of the call: after the call the month key
\* is the current month (the counters having been reset if it was stale).
C3_EveryCallSeesCurrentMonth ==
    last_call.op # "none" => quota.month = MonthOf(last_call.at)

---------------------------------------------------------------------------
(* Configuration *)

\* "08:00", "12:00", "18:00", "22:00" as minutes of the day
PREMIUM_POSTING_TIMES == {8 * 60, 12 * 60, 18 * 60, 22 * 60}

\* "02:00", "04:00", "06:00", "10:00", "20:00", "00:00", "14:00", "16:00"
GLOBAL_POSTING_TIMES ==
    {2 * 60, 4 * 60, 6 * 60, 10 * 60, 20 * 60, 0, 14 * 60, 16 * 60}

MAIN_POSTING_TIMES == PREMIUM_POSTING_TIMES \cup GLOBAL_POSTING_TIMES

GLOBAL_CATEGORIES == {"EPL", "F1", "MotoGP", "Cycling"}
BUSINESS_CATEGORIES == {"Crypto", "Tesla", "Space Exploration"}

\* list(RSS_FEEDS.keys())
Categories ==
    {"EPL", "F1", "MotoGP", "Crypto", "Cycling", "Space Exploration", "Tesla"}

---------------------------------------------------------------------------
(* The posted-URL log: posted_links.txt is text, one stripped URL per line *)

Whitespace == {" ", "\n"}

\* article URLs a feed can deliver: one is a prefix of another, one carries
\* trailing whitespace
Urls == {<<"a">>, <<"a", "b">>, <<"c", " ">>}

RECURSIVE LStrip(_)
LStrip(s) == IF s # <<>> /\ Head(s) \in Whitespace THEN LStrip(Tail(s)) ELSE s

RECURSIVE RStrip(_)
RStrip(s) ==
    IF s # <<>> /\ s[Len(s)] \in Whitespace
    THEN RStrip(SubSeq(s, 1, Len(s) - 1))
    ELSE s

\* str.strip()
Strip(s) == RStrip(LStrip(s))

\* Python's `s in text` on strings
IsSubstring(s, text) ==
    \E i \in 0..(Len(text) - Len(s)) : SubSeq(text, i + 1, i + Len(s)) = s

has_been_posted_never(log, url) == FALSE

\* has_been_posted(url); a missing file reads like an empty one
has_been_posted(log, url) == IsSubstring(Strip(url), log)

\* log_posted(url): the file after the append
log_posted(log, url) == log \o Strip(url) \o <<"\n">>

---------------------------------------------------------------------------
(* Posting decisions *)

\* can_post_now(), with the global last_post_time and the clock as arguments
can_post_now(last, t) ==
    IF last = None THEN TRUE ELSE (t - last) >= POST_INTERVAL_MINUTES * 60

\* should_post_main_content()
should_post_main_content(t) == HHMM(t) \in MAIN_POSTING_TIMES

is_premium_posting_time(t) == HHMM(t) \in PREMIUM_POSTING_TIMES
is_global_posting_time(t) == HHMM(t) \in GLOBAL_POSTING_TIMES

MinuteAlwaysChanged(current_minute, last_checked) == TRUE

\* line 1552: scheduled actions are checked only when the minute changes
MinuteChanged(current_minute, last_checked) == current_minute # last_checked

---------------------------------------------------------------------------
(* Python floats.  The averages of lines 377 and 548-549 are IEEE 754      *)
(* doubles: every division, addition and multiplication rounds its exact   *)
(* result to 53 significant bits, ties to even.  A double that is not      *)
(* negative is held as m * 2^e, with 2^52 <= m < 2^53 or m = 0; m is a     *)
(* sequence of limbs of 15 bits, least significant first.                  *)

Limb == 2^15

LimbAt(a, i) == IF i \in DOMAIN a THEN a[i] ELSE 0

BigZero(a) == \A i \in DOMAIN a : a[i] = 0

\* the limbs of an integer 0 <= x < 2^31
BigOfInt(x) == <<x % Limb, (x \div Limb) % Limb, x \div (Limb * Limb)>>

\* a * Limb^n
BigShiftLimbs(a, n) == [i \in 1..n |-> 0] \o a

RECURSIVE BigAddFrom(_, _, _, _)
BigAddFrom(a, b, i, carry) ==
    IF i > Len(a) /\ i > Len(b) THEN <<carry>>
    ELSE LET s == LimbAt(a, i) + LimbAt(b, i) + carry
         IN  <<s % Limb>> \o BigAddFrom(a, b, i + 1, s \div Limb)

BigAdd(a, b) == BigAddFrom(a, b, 1, 0)

RECURSIVE BigMulSmallFrom(_, _, _, _)
BigMulSmallFrom(a, k, i, carry) ==
    IF i > Len(a) THEN <<carry>>
    ELSE LET p == a[i] * k + carry
         IN  <<p % Limb>> \o BigMulSmallFrom(a, k, i + 1, p \div Limb)

\* a * k for 0 <= k <= Limb
BigMulSmall(a, k) == BigMulSmallFrom(a, k, 1, 0)

RECURSIVE BigMulFrom(_, _, _)
BigMulFrom(a, b, j) ==
    IF j > Len(b) THEN <<0>>
    ELSE BigAdd(BigShiftLimbs(BigMulSmall(a, b[j]), j - 1), BigMulFrom(a, b, j + 1))

BigMul(a, b) == BigMulFrom(a, b, 1)

\* quotient and remainder of the limbs 1..i of a, with remainder r carried
\* in from the limbs above, by 0 < d <= 2 * Limb
RECURSIVE BigDivSmallFrom(_, _, _, _)
BigDivSmallFrom(a, d, i, r) ==
    IF i = 0 THEN [q |-> <<>>, r |-> r]
    ELSE LET cur == r * Limb + a[i]
             rest == BigDivSmallFrom(a, d, i - 1, cur % d)
         IN  [q |-> Append(rest.q, cur \div d), r |-> rest.r]

BigDivSmall(a, d) == BigDivSmallFrom(a, d, Len(a), 0)

\* a * 2^n
BigShiftLeft(a, n) ==
    BigShiftLimbs(BigMulSmall(a, 2^(n % 15)), n \div 15)

\* a \div 2^n, and whether a bit was shifted out
BigShiftRight(a, n) ==
    LET k == n \div 15
        dv == BigDivSmall(SubSeq(a, k + 1, Len(a)), 2^(n % 15))
    IN  [q |-> dv.q,
         sticky |-> dv.r # 0 \/ \E i \in 1..k : LimbAt(a, i) # 0]

RECURSIVE IntBitLength(_)
IntBitLength(x) == IF x = 0 THEN 0 ELSE 1 + IntBitLength(x \div 2)

\* int.bit_length() of a
BigBitLength(a) ==
    IF BigZero(a) THEN 0
    ELSE LET top == CHOOSE i \in DOMAIN a :
                       a[i] # 0 /\ \A j \in DOMAIN a : j > i => a[j] = 0
         IN  (top - 1) * 15 + IntBitLength(a[top])

\* -1, 0 or 1 as a < b, a = b or a > b, from limb i downwards
RECURSIVE BigCmpFrom(_, _, _)
BigCmpFrom(a, b, i) ==
    IF i = 0 THEN 0
    ELSE IF LimbAt(a, i) > LimbAt(b, i) THEN 1
    ELSE IF LimbAt(a, i) < LimbAt(b, i) THEN -1
    ELSE BigCmpFrom(a, b, i - 1)

BigCmp(a, b) == BigCmpFrom(a, b, IF Len(a) > Len(b) THEN Len(a) ELSE Len(b))

\* the four limbs that hold a mantissa
Mantissa(a) == [i \in 1..4 |-> LimbAt(a, i)]

float_zero == [m |-> Mantissa(<<>>), e |-> 0]

\* the double nearest to n / d * 2^e, ties to even, for limbs n and an
\* integer 0 < d < Limb: the quotient is taken with 75 more bits than n,
\* cut to 54 bits and rounded on the last of them
float_round(n, d, e) ==
    IF BigZero(n) THEN float_zero
    ELSE LET extra == IF d = 1 THEN 0 ELSE 5
             dv == BigDivSmall(BigShiftLimbs(n, extra), d)
             len == BigBitLength(dv.q)
         IN  IF len <= 53
             THEN [m |-> Mantissa(BigShiftLeft(dv.q, 53 - len)),
                   e |-> e - extra * 15 - (53 - len)]
             ELSE LET cut == len - 53 - 1
                      sh == BigShiftRight(dv.q, cut)
                      keep == BigDivSmall(sh.q, 2)
                      up == /\ keep.r = 1
                            /\ \/ sh.sticky
                               \/ dv.r # 0
                               \/ keep.q[1] % 2 = 1
                      m == IF up THEN BigAdd(keep.q, <<1>>) ELSE keep.q
                      over == BigBitLength(m) > 53
                  IN  [m |-> Mantissa(IF over THEN BigDivSmall(m, 2).q ELSE m),
                       e |-> e - extra * 15 + cut + 1
                               + (IF over THEN 1 ELSE 0)]

\* float(n) / d for integers 0 <= n < 2^31 and 0 < d < Limb
float_of_ratio(n, d) == float_round(BigOfInt(n), d, 0)

\* x + y
float_add(x, y) ==
    IF BigZero(x.m) THEN y
    ELSE IF BigZero(y.m) THEN x
    ELSE LET e == IF x.e < y.e THEN x.e ELSE y.e
         IN  float_round(BigAdd(BigShiftLeft(x.m, x.e - e),
                                BigShiftLeft(y.m, y.e - e)), 1, e)

\* x * y
float_mul(x, y) == float_round(BigMul(x.m, y.m), 1, x.e + y.e)

\* x / n for an integer 0 < n < Limb
float_div_int(x, n) == float_round(x.m, n, x.e)

\* x >= y
float_ge(x, y) ==
    IF BigZero(y.m) THEN TRUE
    ELSE IF BigZero(x.m) THEN FALSE
    ELSE IF x.e # y.e THEN x.e > y.e
    ELSE BigCmp(x.m, y.m) >= 0

\* the literal 0.8 of line 549
float_0_8 == float_of_ratio(8, 10)

\* sum() of line 548: the doubles of the sequence added from left to right
RECURSIVE float_sum(_, _)
float_sum(xs, i) ==
    IF i = 0 THEN float_zero ELSE float_add(float_sum(xs, i - 1), xs[i])

\* the double that line 377 leaves in avg_engagement: total_engagement, held
\* in half points, divided by count
float_avg(stats) == float_of_ratio(stats.total_engagement, 2 * stats.count)

---------------------------------------------------------------------------
(* Learned recommendations *)

RECURSIVE SumAvg(_, _)
SumAvg(perf, slots) ==
    IF slots = {} THEN 0
    ELSE LET k == CHOOSE x \in slots : TRUE
         IN  perf[k].avg_engagement + SumAvg(perf, slots \ {k})

get_recommended_time_slot_above_mean(ins, slot) ==
    LET perf == ins.time_slot_performance
    IN  IF DOMAIN perf = {} THEN TRUE
        ELSE IF slot \in DOMAIN perf
             THEN Cardinality(DOMAIN perf) * perf[slot].avg_engagement
                    > SumAvg(perf, DOMAIN perf)
             ELSE TRUE

\* get_recommended_time_slot(current_time): avg >= avg_all * 0.8 on doubles,
\* with avg_all = sum(...) / len(...); sum() adds the averages from left to
\* right in the order of the keys of the dict (CPython before 3.12)
get_recommended_time_slot(ins, slot) ==
    LET perf == ins.time_slot_performance
        keys == ins.time_slot_keys
        avgs == [i \in DOMAIN keys |-> float_avg(perf[keys[i]])]
        avg_all == float_div_int(float_sum(avgs, Len(avgs)), Len(keys))
    IN  IF DOMAIN perf = {} THEN TRUE
        ELSE IF slot \in DOMAIN perf
             THEN float_ge(float_avg(perf[slot]), float_mul(avg_all, float_0_8))
             ELSE TRUE

\* should_use_emoji(): improvement_factor > 1.0
should_use_emoji(ins) ==
    IF ins.emoji_impact = <<>> THEN TRUE
    ELSE ins.emoji_impact[1].with_emoji_avg > ins.emoji_impact[1].without_emoji_avg

\* should_use_cta(): improvement_factor > 1.0
should_use_cta(ins) ==
    IF ins.cta_effectiveness = <<>> THEN TRUE
    ELSE ins.cta_effectiveness[1].with_cta_avg > ins.cta_effectiveness[1].without_cta_avg

learner_after_selection_scored(pd, ins) ==
    [pd |-> pd, ins |-> [ins EXCEPT !.category_performance = <<>>]]

\* performance_data and insights after get_recommended_category,
\* get_recommended_time_slot, should_use_emoji, should_use_cta or
\* detect_category_with_learning returned: none of them assigns to either
learner_after_selection(pd, ins) == [pd |-> pd, ins |-> ins]

\* line 524: without category statistics the choice is random.choice alone
cold_start(ins) == ins.category_performance = <<>>

\* get_recommended_category(available): the categories it can return; every
\* member of available is possible through random.choice
get_recommended_category(ins, available) == available

\* detect_category_with_learning(): the categories it can return at time t
detect_category_with_learning(ins, t) ==
    get_recommended_category(ins, Categories)
      \cup (IF is_premium_posting_time(t) THEN BUSINESS_CATEGORIES ELSE {})
      \cup (IF is_global_posting_time(t) THEN GLOBAL_CATEGORIES ELSE {})

should_analyze_performance_later(pd, t) ==
    IF pd.last_analysis = None
    THEN Len(pd.tweets) >= min_tweets_for_learning
    ELSE /\ t - pd.last_analysis > DAY_SECONDS
         /\ \E i \in 1..Len(pd.tweets) : ~pd.tweets[i].analyzed

\* should_analyze_performance()
should_analyze_performance(pd, t) ==
    IF pd.last_analysis = None
    THEN Len(pd.tweets) >= min_tweets_for_learning
    ELSE /\ t - pd.last_analysis >= DAY_SECONDS
         /\ \E i \in 1..Len(pd.tweets) : ~pd.tweets[i].analyzed

\* record_tweet_posted: the record appended to performance_data["tweets"]
tweet_record(id, category, time_slot, has_emoji, has_cta, t) ==
    [id |-> id, category |-> category, time_slot |-> time_slot,
     has_emoji |-> has_emoji, has_cta |-> has_cta, posted_at |-> t,
     analyzed |-> FALSE, metrics |-> <<>>]

record_tweet_posted(pd, rec) == [pd EXCEPT !.tweets = Append(@, rec)]

---------------------------------------------------------------------------
(* What the collaborators can answer *)

MaxArticles == 2

\* get_articles_for_category: any list of up to MaxArticles articles
ArticleLists == UNION {[1..n -> Urls] : n \in 0..MaxArticles}

\* twitter_client.create_tweet: success, or an exception whose message holds
\* "403"/"forbidden", holds "duplicate", or holds neither
PublishErrors == {"forbidden", "duplicate", "transient"}

\* lines 1444-1449: the errors that end the call at once
is_non_retryable(e) == e \in {"forbidden", "duplicate"}


\* index of the first article of the list that is not yet posted, 0 if none
FirstUnposted(log, arts) ==
    IF \E i \in 1..Len(arts) : ~has_been_posted(log, arts[i])
    THEN CHOOSE i \in 1..Len(arts) :
           /\ ~has_been_posted(log, arts[i])
           /\ \A j \in 1..(i - 1) : has_been_posted(log, arts[j])
    ELSE 0

---------------------------------------------------------------------------
(* Spec: the process as __main__ runs it.  start_learning_scheduler loops  *)
(* every 30 seconds; at a posting time it runs the main content job, which *)
(* posts one article, retrying the publish call.  The statements after a   *)
(* successful publish (lines 1423-1435) are taken one at a time, and       *)
(* log_posted, which has no handler of its own, can raise into the except  *)
(* clause of line 1441.  The reply campaign is switched off                *)
(* (should_run_reply_campaign returns False).                              *)

FirstSlot == 2 * 3600   \* 02:00:00 of the first day
LeadIn == 60            \* the process starts LeadIn seconds before a slot
RunLength == 7260       \* seconds of scheduler ticks explored

MaxFaults == 1          \* times log_posted raises in a run

MaxLag == 1             \* seconds that pass, in a run, between the reading of
                        \* the clock of line 1538 and that of line 1467

StartTime == FirstSlot - LeadIn
SchedEnd == StartTime + RunLength

slot_stats(avg) == [total_engagement |-> avg, count |-> 1, avg_engagement |-> avg]

\* learning_insights.json as earlier runs can have left it: nothing learned,
\* or 02:00 far below the average of the slots
InsightFiles ==
    {NoInsights,
     [NoInsights EXCEPT !.time_slot_performance =
         (2 * 60 :> slot_stats(1)) @@ (4 * 60 :> slot_stats(9)),
                        !.time_slot_keys = <<2 * 60, 4 * 60>>]}

Init ==
    /\ now = StartTime
    /\ \E w \in {0, WRITE_CAP - 1, WRITE_CAP} :
         LET f == <<[month |-> MonthOf(now), reads_used |-> 0, writes_used |-> w]>>
         IN  /\ quota = load_quota(f, now).quota
             /\ quota_file = load_quota(f, now).file
    /\ last_call = NoCall
    /\ calls = 0
    /\ posted_log = <<>>
    /\ last_post_time = None
    /\ performance_data = NoPerformanceData
    /\ insights \in InsightFiles
    /\ disk = FilesOf(performance_data, insights)
    /\ health = NoHealth
    /\ reply_system = NoReplySystem
    /\ last_checked_minute = None
    /\ pc = "idle"
    /\ job = NoJob
    /\ hist = [NoHist EXCEPT !.writes_at_start = quota.writes_used]

quotaCallVars == <<last_call, calls>>

\* time.sleep(30) at the end of a loop iteration
Sleep == now' = now + TICK_SLEEP

\* a tick in a minute that was already checked
TickSameMinute ==
    /\ pc = "idle"
    /\ now <= SchedEnd
    /\ ~MinuteChanged(HHMM(now), last_checked_minute)
    /\ Sleep
    /\ UNCHANGED <<quota, quota_file, quotaCallVars, botVars>>

\* the seconds that can pass between the reading of the clock of line 1538
\* (current_minute) and that of line 1467 (should_post_main_content)
Lags == 0..(MaxLag - hist.lagged)

\* a tick in a new minute, lines 1538-1567: should_post_main_content() reads
\* the clock again and finds no posting time; the minute read at line 1539
\* is marked as checked
TickNoSlot ==
    /\ pc = "idle"
    /\ now <= SchedEnd
    /\ MinuteChanged(HHMM(now), last_checked_minute)
    /\ \E lag \in Lags :
         /\ ~should_post_main_content(now + lag)
         /\ now' = now + lag + TICK_SLEEP
         /\ hist' = [hist EXCEPT !.lagged = @ + lag]
    /\ last_checked_minute' = HHMM(now)
    /\ UNCHANGED <<quota, quota_file, quotaCallVars, posted_log, last_post_time,
                   performance_data, insights, disk, health, reply_system, pc, job>>

\* a tick in a new minute, lines 1538-1558: should_post_main_content() reads
\* the clock again and finds a posting time: the job is run, with
\* current_minute the minute read at line 1539
TickSlot ==
    /\ pc = "idle"
    /\ now <= SchedEnd
    /\ MinuteChanged(HHMM(now), last_checked_minute)
    /\ \E lag \in Lags :
         /\ should_post_main_content(now + lag)
         /\ now' = now + lag
         /\ hist' = [hist EXCEPT !.jobs_started = Append(@, (now + lag) \div 60),
                                 !.exhausted = "none",
                                 !.published_at_job = hist.published,
                                 !.lagged = @ + lag]
    /\ pc' = "job"
    /\ job' = [NoJob EXCEPT !.current_minute = HHMM(now)]
    /\ UNCHANGED <<quota, quota_file, quotaCallVars, posted_log,
                   last_post_time, performance_data, insights, disk, health, reply_system,
                   last_checked_minute>>

\* run_main_content_job_with_learning, lines 1483-1485: the category is
\* chosen and the post call begins, once no analysis is due or it has run
JobStart ==
    /\ pc = "job"
    /\ job.analysis_ran \/ ~should_analyze_performance(performance_data, now)
    /\ \E c \in detect_category_with_learning(insights, now) :
         job' = [job EXCEPT !.category = c, !.is_backup = FALSE]
    /\ pc' = "post_main"
    /\ UNCHANGED <<now, quota, quota_file, quotaCallVars, posted_log,
                   last_post_time, performance_data, insights, disk, health, reply_system,
                   last_checked_minute, hist>>

\* entering post_main_content_with_learning(category)
EnterHist ==
    [hist EXCEPT !.publish_calls = 0, !.sleeps = <<>>, !.last_outcome = "none",
                 !.writes_at_entry = quota.writes_used,
                 !.log_at_entry = posted_log, !.events = <<>>,
                 !.stamp_at_entry = last_post_time,
                 !.records_at_entry = performance_data.tweets]

\* the job is over: what was noted of its last post call is dropped
LeaveHist ==
    [hist EXCEPT !.publish_calls = 0, !.sleeps = <<>>, !.last_outcome = "none",
                 !.writes_at_entry = 0, !.log_at_entry = <<>>, !.events = <<>>,
                 !.stamp_at_entry = None, !.records_at_entry = <<>>]

PostReturns(result) ==
    /\ pc' = "returned"
    /\ job' = [job EXCEPT !.result = result]

\* lines 1379-1381: cooldown not elapsed or write quota exhausted
PostGateRefuses ==
    /\ pc = "post_main"
    /\ ~can_post_now(last_post_time, now) \/ ~can_write(quota, 1)
    /\ PostReturns("false")
    /\ hist' = EnterHist
    /\ UNCHANGED <<now, quota, quota_file, quotaCallVars, posted_log,
                   last_post_time, performance_data, insights, disk, health, reply_system,
                   last_checked_minute>>

\* lines 1383-1386: the learning system advises against this time slot
PostSlotSkipped ==
    /\ pc = "post_main"
    /\ can_post_now(last_post_time, now) /\ can_write(quota, 1)
    /\ ~get_recommended_time_slot(insights, HHMM(now))
    /\ PostReturns("false")
    /\ hist' = EnterHist
    /\ UNCHANGED <<now, quota, quota_file, quotaCallVars, posted_log,
                   last_post_time, performance_data, insights, disk, health, reply_system,
                   last_checked_minute>>

\* lines 1388-1392, 1458-1459: every fetched article is already posted
PostNoArticle ==
    /\ pc = "post_main"
    /\ can_post_now(last_post_time, now) /\ can_write(quota, 1)
    /\ get_recommended_time_slot(insights, HHMM(now))
    /\ \E arts \in ArticleLists : FirstUnposted(posted_log, arts) = 0
    /\ PostReturns("false")
    /\ hist' = EnterHist
    /\ UNCHANGED <<now, quota, quota_file, quotaCallVars, posted_log,
                   last_post_time, performance_data, insights, disk, health, reply_system,
                   last_checked_minute>>

\* lines 1388-1416: the first unposted article is prepared for publishing
PostPrepared ==
    /\ pc = "post_main"
    /\ can_post_now(last_post_time, now) /\ can_write(quota, 1)
    /\ get_recommended_time_slot(insights, HHMM(now))
    /\ \E arts \in ArticleLists :
         /\ FirstUnposted(posted_log, arts) # 0
         /\ job' = [job EXCEPT !.current_time = HHMM(now),
                               !.article = arts[FirstUnposted(posted_log, arts)],
                               !.attempt = 0,
                               !.retry_delay = initial_retry_delay]
    /\ pc' = "publish"
    /\ hist' = EnterHist
    /\ UNCHANGED <<now, quota, quota_file, quotaCallVars, posted_log,
                   last_post_time, performance_data, insights, disk, health, reply_system,
                   last_checked_minute>>

\* lines 1423-1427, in the order of the statements: use_write, log_posted,
\* last_post_time, record_tweet_posted
success_steps == <<"debit", "log", "stamp", "record">>

\* line 1420-1421: create_tweet returned and the tweet id was read
PublishConfirmed ==
    /\ pc = "publish"
    /\ pc' = "confirmed"
    /\ job' = [job EXCEPT !.step = 1]
    /\ hist' = [hist EXCEPT !.publish_calls = @ + 1, !.last_outcome = "ok",
                            !.published = @ + 1,
                            !.confirmed = Append(@, job.article),
                            !.events = Append(@, "publish"),
                            !.last_success_at = now]
    /\ UNCHANGED <<now, quota, quota_file, quotaCallVars, posted_log,
                   last_post_time, performance_data, insights, disk, health, reply_system,
                   last_checked_minute>>

\* the next statement of lines 1423-1427
SuccessStep ==
    /\ pc = "confirmed"
    /\ job.step <= Len(success_steps)
    /\ LET s == success_steps[job.step] IN
         /\ IF s = "debit"
            THEN /\ quota' = use_write(quota, 1)
                 /\ quota_file' = save_after(quota, quota', quota_file)
            ELSE UNCHANGED <<quota, quota_file>>
         /\ IF s = "log"
            THEN posted_log' = log_posted(posted_log, job.article)
            ELSE UNCHANGED posted_log
         /\ IF s = "stamp"
            THEN last_post_time' = now
            ELSE UNCHANGED last_post_time
         /\ IF s = "record"
            THEN /\ \E has_cta \in BOOLEAN :
                      performance_data' =
                        record_tweet_posted(performance_data,
                          tweet_record(Len(performance_data.tweets) + 1,
                                       job.category, job.current_time,
                                       should_use_emoji(insights), has_cta, now))
                 /\ disk' = save_performance_data(disk, performance_data')
            ELSE UNCHANGED <<performance_data, disk>>
         /\ hist' = [hist EXCEPT !.events = Append(@, IF s = "debit" /\ quota' = quota
                                                      THEN "refused" ELSE s),
                                 !.logged = IF s = "log" THEN @ \cup {job.article}
                                            ELSE @]
    /\ job' = [job EXCEPT !.step = @ + 1]
    /\ UNCHANGED <<now, pc, quotaCallVars, insights, last_checked_minute, health, reply_system>>

\* line 1439: return True
SuccessReturn ==
    /\ pc = "confirmed"
    /\ job.step > Len(success_steps)
    /\ PostReturns("true")
    /\ UNCHANGED <<now, quota, quota_file, quotaCallVars, posted_log,
                   last_post_time, performance_data, insights, disk, health, reply_system,
                   last_checked_minute, hist>>

\* the statements of lines 1423-1427 that can raise: open(POSTED_LOG, "a")
raising_steps == {"log"}

\* lines 1441, 1450-1453: the statement raised, attempts are left: sleep,
\* double the delay, call create_tweet again
StepRaisesRetry ==
    /\ pc = "confirmed"
    /\ job.step <= Len(success_steps)
    /\ success_steps[job.step] \in raising_steps
    /\ hist.faults < MaxFaults
    /\ job.attempt < max_retries - 1
    /\ hist' = [hist EXCEPT !.faults = @ + 1,
                            !.events = Append(@, "raise"),
                            !.sleeps = Append(@, job.retry_delay)]
    /\ now' = now + job.retry_delay
    /\ job' = [job EXCEPT !.attempt = @ + 1, !.retry_delay = @ * 2, !.step = 0]
    /\ pc' = "publish"
    /\ UNCHANGED <<quota, quota_file, quotaCallVars, posted_log,
                   last_post_time, performance_data, insights, disk, health, reply_system,
                   last_checked_minute>>

\* lines 1441, 1454-1456: the statement raised on the last attempt
StepRaisesGiveUp ==
    /\ pc = "confirmed"
    /\ job.step <= Len(success_steps)
    /\ success_steps[job.step] \in raising_steps
    /\ hist.faults < MaxFaults
    /\ ~(job.attempt < max_retries - 1)
    /\ hist' = [hist EXCEPT
                  !.faults = @ + 1,
                  !.events = Append(@, "raise"),
                  !.exhausted = IF job.is_backup THEN "backup" ELSE "primary",
                  !.exhausted_minute = hist.jobs_started[Len(hist.jobs_started)]]
    /\ PostReturns("false")
    /\ UNCHANGED <<now, quota, quota_file, quotaCallVars, posted_log,
                   last_post_time, performance_data, insights, disk, health, reply_system,
                   last_checked_minute>>

\* lines 1444-1449: a 403/forbidden or duplicate error ends the call
PublishRejected ==
    /\ pc = "publish"
    /\ \E e \in PublishErrors :
         /\ is_non_retryable(e)
         /\ hist' = [hist EXCEPT !.publish_calls = @ + 1, !.last_outcome = e]
    /\ PostReturns("false")
    /\ UNCHANGED <<now, quota, quota_file, quotaCallVars, posted_log,
                   last_post_time, performance_data, insights, disk, health, reply_system,
                   last_checked_minute>>

\* lines 1450-1453: another error, attempts left: sleep, double the delay
PublishRetry ==
    /\ pc = "publish"
    /\ job.attempt < max_retries - 1
    /\ \E e \in PublishErrors :
         /\ ~is_non_retryable(e)
         /\ hist' = [hist EXCEPT !.publish_calls = @ + 1,
                                 !.last_outcome = e,
                                 !.sleeps = Append(@, job.retry_delay)]
    /\ now' = now + job.retry_delay
    /\ job' = [job EXCEPT !.attempt = @ + 1, !.retry_delay = @ * 2]
    /\ UNCHANGED <<pc, quota, quota_file, quotaCallVars, posted_log,
                   last_post_time, performance_data, insights, disk, health, reply_system,
                   last_checked_minute>>

\* lines 1454-1456: another error on the last attempt
PublishGiveUp ==
    /\ pc = "publish"
    /\ ~(job.attempt < max_retries - 1)
    /\ \E e \in PublishErrors :
         /\ ~is_non_retryable(e)
         /\ hist' = [hist EXCEPT
                       !.publish_calls = @ + 1,
                       !.last_outcome = e,
                       !.exhausted = IF job.is_backup THEN "backup" ELSE "primary",
                       !.exhausted_minute = hist.jobs_started[Len(hist.jobs_started)]]
    /\ PostReturns("false")
    /\ UNCHANGED <<now, quota, quota_file, quotaCallVars, posted_log,
                   last_post_time, performance_data, insights, disk, health, reply_system,
                   last_checked_minute>>

try_backup_always(is_backup, result) == result = "false"

\* lines 1486-1489: a backup is tried after the primary call failed
try_backup(is_backup, result) == ~is_backup /\ result = "false"

\* lines 1486-1492: the primary call failed; a backup category is tried
JobBackup ==
    /\ pc = "returned"
    /\ try_backup(job.is_backup, job.result)
    /\ Categories \ {job.category} # {}
    /\ can_write(quota, 1)
    /\ \E b \in get_recommended_category(insights, Categories \ {job.category}) :
         job' = [job EXCEPT !.category = b, !.is_backup = TRUE, !.result = "none"]
    /\ pc' = "post_main"
    /\ UNCHANGED <<now, quota, quota_file, quotaCallVars, posted_log,
                   last_post_time, performance_data, insights, disk, health, reply_system,
                   last_checked_minute, hist>>

\* lines 1494, 1564-1567: the job is over; the minute is marked, the loop sleeps
JobDone ==
    /\ pc = "returned"
    /\ ~(/\ try_backup(job.is_backup, job.result)
         /\ Categories \ {job.category} # {}
         /\ can_write(quota, 1))
    /\ last_checked_minute' = job.current_minute
    /\ pc' = "idle"
    /\ job' = NoJob
    /\ Sleep
    /\ hist' = LeaveHist
    /\ UNCHANGED <<quota, quota_file, quotaCallVars, posted_log, last_post_time,
                   performance_data, insights, disk, health, reply_system>>

Next ==
    \/ TickSameMinute
    \/ TickNoSlot
    \/ TickSlot
    \/ JobStart
    \/ PostGateRefuses
    \/ PostSlotSkipped
    \/ PostNoArticle
    \/ PostPrepared
    \/ PublishConfirmed
    \/ SuccessStep
    \/ SuccessReturn
    \/ StepRaisesRetry
    \/ StepRaisesGiveUp
    \/ PublishRejected
    \/ PublishRetry
    \/ PublishGiveUp
    \/ JobBackup
    \/ JobDone

Spec == Init /\ [][Next]_vars

---------------------------------------------------------------------------
(* Properties of posting and scheduling, checked under Spec *)

\* C4: a write-quota unit is consumed only after a publish call returned
\* successfully (never more units than successes), exactly one per success
\* (once use_write of line 1423 has had its turn, writes_used is what the
\* process started with plus the number of successful publishes), and no
\* publish call is made while writes_used >= 500.
C4_DebitFollowsPublish ==
    LET debited == quota.writes_used - hist.writes_at_start
    IN  /\ debited <= hist.published
        /\ pc # "confirmed" \/ job.step > 1 => debited = hist.published
        /\ pc = "publish" => quota.writes_used < 500

\* C5: once log_posted(X) has run, has_been_posted(X) is true ever after, and
\* no publish call is made for an article whose URL is X.
C5_LoggedUrlNeverRepublished ==
    /\ \A x \in hist.logged : has_been_posted(posted_log, x)
    /\ pc = "publish" => job.article \notin hist.logged

\* a later job publishes "ab" while "a" is in the log
C5_Witness ==
    /\ pc = "publish"
    /\ hist.logged = {<<"a">>}
    /\ job.article = <<"a", "b">>

\* C6: with T the time of the last successful post, can_post_now is false at
\* every time strictly between T and T + 90 min (scheduled minute or not),
\* true when nothing was posted yet and true from T + 90 min on; and no
\* publish call is made less than 90 minutes after T.
C6_CooldownHolds ==
    LET T == hist.last_success_at
    IN  /\ T = None => can_post_now(last_post_time, now)
        /\ T # None /\ now > T /\ now < T + 90 * 60 =>
              ~can_post_now(last_post_time, now)
        /\ T # None /\ now >= T + 90 * 60 => can_post_now(last_post_time, now)
        /\ pc = "publish" => T = None \/ now - T >= 90 * 60

\* C7: the main content job is started at most once per scheduled minute: no
\* two job starts fall in the same minute (checked under SpecTick, where the
\* process starts at any second).
C7_OneJobPerMinute ==
    \A i, j \in 1..Len(hist.jobs_started) :
        i # j => hist.jobs_started[i] # hist.jobs_started[j]

\* the second tick (hh:mm:30) of a posting minute whose job has run
C7_Witness ==
    /\ pc = "idle"
    /\ should_post_main_content(now)
    /\ now % 60 = 30
    /\ last_checked_minute = HHMM(now)
    /\ hist.jobs_started = <<now \div 60>>

\* C8, in its weakest reading: a 403/forbidden or duplicate error from the
\* publish call ends the post call at once with False: the failed call is not
\* repeated and no backoff sleep follows it (one call in all when it was the
\* first attempt), and writes_used is what it was when the post call began.
C8_NonRetryableEndsCall ==
    hist.last_outcome \in {"forbidden", "duplicate"} =>
        /\ pc # "publish"
        /\ pc = "returned" =>
              /\ job.result = "false"
              /\ hist.publish_calls = Len(hist.sleeps) + 1
              /\ hist.sleeps = <<>> => hist.publish_calls = 1
              /\ quota.writes_used = hist.writes_at_entry

\* C9: a post call makes at most 3 publish calls; the k-th sleep between
\* attempts lasts 5 * 2^(k-1) seconds (5 s, then 10 s); after the third
\* failure the call returns False; the loop is bounded by its attempt
\* counter, which every failed call raises, and it is never stuck: while it
\* runs, a publish call with some outcome is the next step.
C9_BoundedRetry ==
    /\ hist.publish_calls <= 3
    /\ Len(hist.sleeps) <= 2
    /\ \A k \in 1..Len(hist.sleeps) : hist.sleeps[k] = 5 * 2^(k - 1)
    /\ pc = "publish" =>
          /\ job.attempt = hist.publish_calls
          /\ job.attempt < 3
          /\ Len(hist.sleeps) = job.attempt
          /\ ENABLED (PublishConfirmed \/ PublishRejected \/ PublishRetry \/ PublishGiveUp)
    /\ hist.publish_calls = 3 /\ hist.last_outcome = "transient" /\ pc = "returned" =>
          job.result = "false"

\* three attempts failed with transient errors, 5 s and 10 s apart
C9_Witness ==
    /\ pc = "returned"
    /\ job.result = "false"
    /\ hist.publish_calls = 3
    /\ hist.last_outcome = "transient"
    /\ hist.sleeps = <<5, 10>>

\* C10 to the letter: once the retries of a post are exhausted, no further
\* publish call is made in that tick.
C10_NoPublishAfterExhaustion ==
    hist.exhausted # "none" => pc # "publish"

\* C10, the backup call of the job allowed for: once the retries of a post
\* call are exhausted, a publish call later in the same tick is made only by
\* the one backup call that follows an exhausted primary call; every other
\* publish call after the exhaustion belongs to a job started at a later
\* minute that is a scheduled slot (checked under SpecTick).
C10_OnlyBackupAfterExhaustion ==
    /\ hist.exhausted # "none" /\ pc = "publish" =>
          hist.exhausted = "primary" /\ job.is_backup
    /\ hist.exhausted = "backup" => pc \notin {"post_main", "publish"}
    /\ hist.exhausted_minute # None /\ hist.exhausted = "none" /\ pc = "publish" =>
          LET started == hist.jobs_started[Len(hist.jobs_started)]
          IN  /\ started > hist.exhausted_minute
              /\ (started % 1440) \in MAIN_POSTING_TIMES

\* the job of the next slot publishes after the retries ran out in this one
C10_Witness ==
    /\ pc = "publish"
    /\ hist.exhausted = "none"
    /\ hist.exhausted_minute # None
    /\ hist.jobs_started[Len(hist.jobs_started)] = hist.exhausted_minute + 120

---------------------------------------------------------------------------
(* SpecCrash: the posting process with a process that can die between any *)
(* two statements of the success path of lines 1420-1439 and be started    *)
(* again.  What is in memory is lost; the files (api_quota.json,           *)
(* posted_links.txt, tweet_performance.json) stay.                         *)

MaxCrashes == 1        \* times the process dies and is started again
MaxDowntime == 1       \* the restart takes 0..MaxDowntime scheduler periods
CrashRunLength == 90   \* seconds explored from the start of the process

CrashEnd == StartTime + CrashRunLength

\* the process dies after create_tweet returned, a statement of lines
\* 1423-1427 still to run;
\* __main__ runs again 0..MaxDowntime periods later: the managers are
\* constructed from the files, the globals start afresh
CrashRestart ==
    /\ pc = "confirmed"
    /\ job.step <= Len(success_steps)
    /\ hist.crashes < MaxCrashes
    /\ \E k \in 0..MaxDowntime :
         /\ now' = now + k * TICK_SLEEP
         /\ quota' = load_quota(quota_file, now').quota
         /\ quota_file' = load_quota(quota_file, now').file
    /\ last_post_time' = None
    /\ last_checked_minute' = None
    /\ pc' = "idle"
    /\ job' = NoJob
    /\ hist' = [EnterHist EXCEPT
                  !.writes_at_entry = 0,
                  !.log_at_entry = <<>>,
                  !.exhausted = "none",
                  !.exhausted_minute = None,
                  !.crashes = @ + 1,
                  !.crash_gap =
                     IF /\ pc = "confirmed"
                        /\ quota.writes_used = hist.writes_at_entry + 1
                        /\ posted_log = hist.log_at_entry
                     THEN job.article ELSE @]
    /\ performance_data' = load_performance_data(disk.performance)
    /\ insights' = load_learning_insights(disk.insights)
    /\ UNCHANGED <<quotaCallVars, posted_log, disk, health, reply_system>>

\* the scheduler loop is followed until CrashEnd; a job that has begun runs
\* to its end
NextCrash ==
    \/ now <= CrashEnd /\ TickSameMinute
    \/ now <= CrashEnd /\ TickNoSlot
    \/ now <= CrashEnd /\ TickSlot
    \/ JobStart
    \/ PostGateRefuses
    \/ PostSlotSkipped
    \/ PostNoArticle
    \/ PostPrepared
    \/ PublishConfirmed
    \/ SuccessStep
    \/ SuccessReturn
    \/ StepRaisesRetry
    \/ StepRaisesGiveUp
    \/ PublishRejected
    \/ PublishRetry
    \/ PublishGiveUp
    \/ JobBackup
    \/ JobDone
    \/ CrashRestart

SpecCrash == Init /\ [][NextCrash]_vars

---------------------------------------------------------------------------
(* Properties of the success path, checked under SpecCrash *)

\* C11: in a post call a debit of the write quota follows at once on a
\* confirmed publish and the marking of the URL follows at once on that
\* debit; when the call returns, every publish it had confirmed has been
\* followed by its debit and then by the marking of its URL; and a URL is
\* never marked as posted without a confirmed publish of that article before
\* it.  In hist.events, "refused" is a use_write that debited nothing and
\* "raise" a statement that raised.
C11_PublishDebitLogOrder ==
    LET ev == hist.events
    IN  /\ \A x \in hist.logged :
              \E i \in 1..Len(hist.confirmed) : hist.confirmed[i] = x
        /\ \A k \in 1..Len(ev) :
              /\ ev[k] = "debit" => k > 1 /\ ev[k - 1] = "publish"
              /\ ev[k] = "log" => k > 1 /\ ev[k - 1] = "debit"
        /\ pc = "returned" =>
              \A k \in 1..Len(ev) :
                  ev[k] = "publish" =>
                      /\ Len(ev) >= k + 2
                      /\ ev[k + 1] = "debit"
                      /\ ev[k + 2] = "log"

\* C12: when the process died after the write-quota debit of a post and
\* before its URL was recorded, the restarted process makes no publish call
\* that publishes that article again.
C12_NoRepublishAfterCrash ==
    hist.crash_gap # <<>> =>
        ~(pc = "confirmed" /\ job.article = hist.crash_gap)

---------------------------------------------------------------------------
(* PerformanceLearningSystem: metrics collection and analysis              *)


\* s[:n]
Take(s, n) == SubSeq(s, 1, IF Len(s) < n THEN Len(s) ELSE n)

Range(s) == {s[i] : i \in DOMAIN s}

\* A fetched tweet, as the API can report it: its public_metrics, and
\* non_public_metrics as "dict" (impression_count None when the key is
\* missing), "none" (the attribute is None) or "noattr" (no such attribute)
MetricSamples ==
    {[like_count |-> 0, retweet_count |-> 0, reply_count |-> 0, quote_count |-> 0,
      non_public_metrics |-> "dict", impression_count |-> 0],
     [like_count |-> 1, retweet_count |-> 0, reply_count |-> 0, quote_count |-> 1,
      non_public_metrics |-> "dict", impression_count |-> 1000]}

engagement_score_without_quotes(m) ==
    2 * m.like_count + 4 * m.retweet_count + 6 * m.reply_count

\* lines 272-277, in half points (the weights 1.0, 2.0, 3.0, 2.5 doubled)
engagement_score(m) ==
    2 * m.like_count + 4 * m.retweet_count + 6 * m.reply_count + 5 * m.quote_count

Max(a, b) == IF a >= b THEN a ELSE b

\* tweet.non_public_metrics.get('impression_count', default) if
\* hasattr(tweet, 'non_public_metrics') else default (lines 284 and 286)
impression_count(m, default) ==
    IF m.non_public_metrics = "dict" /\ m.impression_count # None
    THEN m.impression_count
    ELSE default

\* line 286 raises AttributeError when the attribute is there and is None
entry_raises(m) == m.non_public_metrics = "none"

\* line 286: engagement_score / max(impression count or 1, 1), as the
\* fraction num / den with the score in half points over twice the divisor
engagement_rate(m, score) ==
    [num |-> score, den |-> 2 * Max(impression_count(m, 1), 1)]

\* what python answers to a file it cannot parse
SyntaxError == [raised |-> "SyntaxError", line |-> 284]

\* lines 279-287 as committed: line 284 ends in ",," and the dict display is
\* no expression of the language; python rejects the file with SyntaxError
\* and builds no entry, for any tweet
metrics_entry(m) == SyntaxError

\* lines 279-287 with line 284 ending in one comma, the reading of the file
\* under which it runs and of which the rest of this module is the model:
\* the entry of metrics_dict for one fetched tweet
metrics_entry_one_comma(m) ==
    [likes |-> m.like_count, retweets |-> m.retweet_count,
     replies |-> m.reply_count, quotes |-> m.quote_count,
     impressions |-> impression_count(m, 0),
     engagement_score |-> engagement_score(m),
     engagement_rate |-> engagement_rate(m, engagement_score(m))]

unanalyzed_any_age(pd, t) ==
    LET idx == [i \in 1..Len(pd.tweets) |-> i]
        Pending(i) == ~pd.tweets[i].analyzed
    IN  SelectSeq(idx, Pending)

unanalyzed_or_old(pd, t) ==
    LET idx == [i \in 1..Len(pd.tweets) |-> i]
        Pending(i) == pd.tweets[i].posted_at < t - DAY_SECONDS
    IN  SelectSeq(idx, Pending)

\* lines 299-303: the positions of the tweets not analysed yet and posted
\* more than 24 hours before t, in list order
unanalyzed(pd, t) ==
    LET idx == [i \in 1..Len(pd.tweets) |-> i]
        Pending(i) == /\ ~pd.tweets[i].analyzed
                      /\ pd.tweets[i].posted_at < t - DAY_SECONDS
    IN  SelectSeq(idx, Pending)

\* line 309
tweet_ids(pd, un) == [k \in 1..Len(un) |-> pd.tweets[un[k]].id]

\* what twitter_client.get_tweets(ids=...) can do: raise, or answer with
\* data for all the ids, for all but the first or for none, the metrics
\* depending on the parity of the id; "raise_after" is an answer whose
\* processing (lines 268-287) raises
FetchResponses(ids) ==
    {[kind |-> "raise", data |-> <<>>], [kind |-> "raise_after", data |-> <<>>]}
      \cup
    {[kind |-> "data", data |-> [id \in D |-> IF id % 2 = 1 THEN a ELSE b]] :
        D \in {Range(ids), Range(ids) \ {ids[i] : i \in {1} \cap DOMAIN ids}, {}},
        a \in MetricSamples, b \in MetricSamples}

fetch_tweet_metrics_unchecked(q, ids, resp) ==
    LET requested == Take(ids, BATCH_MAX) IN
    IF resp.kind = "raise"
    THEN [metrics |-> <<>>, quota |-> q, called |-> TRUE, requested |-> requested]
    ELSE IF resp.kind = "raise_after"
            \/ \E id \in DOMAIN resp.data : entry_raises(resp.data[id])
    THEN [metrics |-> <<>>, quota |-> use_read(q, 1), called |-> TRUE,
          requested |-> requested]
    ELSE [metrics |-> [id \in DOMAIN resp.data |-> metrics_entry_one_comma(resp.data[id])],
          quota |-> use_read(q, 1), called |-> TRUE, requested |-> requested]

\* fetch_tweet_metrics(tweet_ids): the metrics_dict returned ({} is <<>>), the
\* quota afterwards and whether get_tweets was called
fetch_tweet_metrics(q, ids, resp) ==
    LET requested == Take(ids, BATCH_MAX) IN
    IF ~can_read(q, 1)
    THEN [metrics |-> <<>>, quota |-> q, called |-> FALSE, requested |-> <<>>]
    ELSE IF resp.kind = "raise"
    THEN [metrics |-> <<>>, quota |-> q, called |-> TRUE, requested |-> requested]
    ELSE IF resp.kind = "raise_after"
            \/ \E id \in DOMAIN resp.data : entry_raises(resp.data[id])
    THEN [metrics |-> <<>>, quota |-> use_read(q, 1), called |-> TRUE,
          requested |-> requested]
    ELSE [metrics |-> [id \in DOMAIN resp.data |-> metrics_entry_one_comma(resp.data[id])],
          quota |-> use_read(q, 1), called |-> TRUE, requested |-> requested]

\* the tweets counted by the _analyze_* steps: analyzed and with metrics
Counted(tweets) ==
    {i \in 1..Len(tweets) : tweets[i].analyzed /\ tweets[i].metrics # <<>>}

\* the sum of the engagement scores of the tweets at the positions of S
\* between lo and hi, the range halved at each step
RECURSIVE SumScoresBetween(_, _, _, _)
SumScoresBetween(tweets, S, lo, hi) ==
    IF lo > hi THEN 0
    ELSE IF lo = hi
    THEN (IF lo \in S THEN tweets[lo].metrics[1].engagement_score ELSE 0)
    ELSE LET mid == (lo + hi) \div 2
         IN  SumScoresBetween(tweets, S, lo, mid)
               + SumScoresBetween(tweets, S, mid + 1, hi)

\* the sum of the engagement scores of the tweets at the positions S
SumScores(tweets, S) == SumScoresBetween(tweets, S, 1, Len(tweets))

RECURSIVE ProdCount(_, _, _, _)
ProdCount(tweets, key, keys, S) ==
    IF keys = {} THEN 1
    ELSE LET k == CHOOSE x \in keys : TRUE
         IN  Cardinality({i \in S : tweets[i][key] = k})
               * ProdCount(tweets, key, keys \ {k}, S)

\* lines 337-357 and 359-379: total and count per category or time slot.  The
\* averages of one dict are held over a common denominator, the product of
\* the counts: avg_engagement is total / count in units of 1 / product
group_stats(tweets, key) ==
    LET S == Counted(tweets)
        keys == {tweets[i][key] : i \in S}
        P == ProdCount(tweets, key, keys, S)
    IN  [k \in keys |->
           LET G == {i \in S : tweets[i][key] = k}
           IN  [total_engagement |-> SumScores(tweets, G),
                count |-> Cardinality(G),
                avg_engagement |-> SumScores(tweets, G) * (P \div Cardinality(G))]]

\* the keys of the dict of lines 361-374 in the order in which the loop
\* inserts them: by first counted tweet, the range halved at each step
RECURSIVE group_keys_between(_, _, _, _, _)
group_keys_between(tweets, key, S, lo, hi) ==
    IF lo > hi THEN <<>>
    ELSE IF lo = hi
    THEN (IF lo \in S THEN <<tweets[lo][key]>> ELSE <<>>)
    ELSE LET mid == (lo + hi) \div 2
             first == group_keys_between(tweets, key, S, lo, mid)
             IsNew(k) == \A i \in DOMAIN first : first[i] # k
         IN  first \o SelectSeq(group_keys_between(tweets, key, S, mid + 1, hi),
                                IsNew)

group_keys(tweets, key) ==
    group_keys_between(tweets, key, Counted(tweets), 1, Len(tweets))

\* lines 404-419 and 421-436: the scores of the tweets with and without the
\* flag; "raise" when the improvement factor divides by an average of zero,
\* "keep" when a group is empty, else the two averages over the common
\* denominator len(with) * len(without)
impact(tweets, flag) ==
    LET S == Counted(tweets)
        W == {i \in S : tweets[i][flag]}
        O == {i \in S : ~tweets[i][flag]}
    IN  IF W = {} \/ O = {} THEN [kind |-> "keep"]
        ELSE IF SumScores(tweets, O) = 0 THEN [kind |-> "raise"]
        ELSE [kind |-> "set",
              with_avg |-> SumScores(tweets, W) * Cardinality(O),
              without_avg |-> SumScores(tweets, O) * Cardinality(W)]

\* lines 316-319: the fetched metrics are stored in the pending tweets
apply_metrics(tweets, un, metrics) ==
    [i \in 1..Len(tweets) |->
        IF i \in Range(un) /\ tweets[i].id \in DOMAIN metrics
        THEN [tweets[i] EXCEPT !.metrics = <<metrics[tweets[i].id]>>,
                               !.analyzed = TRUE]
        ELSE tweets[i]]

on_no_metrics_stamped(pd, t) == [pd EXCEPT !.last_analysis = t]

\* lines 312-314: without metrics analyze_performance returns at once
on_no_metrics(pd, t) == pd

\* analyze_performance() at time t with the API answering resp: the
\* performance data, insights and quota afterwards, whether it raised,
\* whether it reached the two saves of lines 331-332, and the fetch it made
analyze_performance(pd, ins, q, t, resp) ==
    LET un == unanalyzed(pd, t)
        ids == tweet_ids(pd, un)
        f == fetch_tweet_metrics(q, ids, resp)
        nofetch == [metrics |-> <<>>, quota |-> q, called |-> FALSE,
                    requested |-> <<>>]
    IN  IF un = <<>>
        THEN [pd |-> pd, ins |-> ins, quota |-> q, raised |-> FALSE,
              saved |-> FALSE, fetch |-> nofetch, pending |-> ids]
        ELSE IF f.metrics = <<>>
        THEN [pd |-> on_no_metrics(pd, t), ins |-> ins, quota |-> f.quota,
              raised |-> FALSE, saved |-> FALSE, fetch |-> f, pending |-> ids]
        ELSE
          LET tweets2 == apply_metrics(pd.tweets, un, f.metrics)
              ins1 == [ins EXCEPT
                         !.category_performance = group_stats(tweets2, "category"),
                         !.time_slot_performance = group_stats(tweets2, "time_slot"),
                         !.time_slot_keys = group_keys(tweets2, "time_slot")]
              emoji == impact(tweets2, "has_emoji")
              ins2 == IF emoji.kind = "set"
                      THEN [ins1 EXCEPT !.emoji_impact =
                              <<[with_emoji_avg |-> emoji.with_avg,
                                 without_emoji_avg |-> emoji.without_avg]>>]
                      ELSE ins1
              cta == impact(tweets2, "has_cta")
              ins3 == IF cta.kind = "set"
                      THEN [ins2 EXCEPT !.cta_effectiveness =
                              <<[with_cta_avg |-> cta.with_avg,
                                 without_cta_avg |-> cta.without_avg]>>]
                      ELSE ins2
              done == Cardinality({i \in Range(un) : tweets2[i].analyzed})
          IN  IF emoji.kind = "raise"
              THEN [pd |-> [pd EXCEPT !.tweets = tweets2], ins |-> ins1,
                    quota |-> f.quota, raised |-> TRUE, saved |-> FALSE,
                    fetch |-> f, pending |-> ids]
              ELSE IF cta.kind = "raise"
              THEN [pd |-> [pd EXCEPT !.tweets = tweets2], ins |-> ins2,
                    quota |-> f.quota, raised |-> TRUE, saved |-> FALSE,
                    fetch |-> f, pending |-> ids]
              ELSE [pd |-> [tweets |-> tweets2, last_analysis |-> t,
                            total_analyzed |-> pd.total_analyzed + done],
                    ins |-> ins3, quota |-> f.quota, raised |-> FALSE,
                    saved |-> TRUE, fetch |-> f, pending |-> ids]

---------------------------------------------------------------------------
(* SpecLearn: the process of Spec started on a tweet_performance.json that *)
(* earlier runs have filled, so that the job finds an analysis due.        *)
(* Times before the start of month 0 are negative.                         *)

\* a record as record_tweet_posted left it at time t
stored_tweet(i, t) ==
    tweet_record(i, IF i % 2 = 1 THEN "EPL" ELSE "Crypto",
                 IF i % 2 = 1 THEN 2 * 60 ELSE 4 * 60,
                 i % 2 = 1, i % 3 = 0, t)

\* n tweets posted two days before the process starts
OldTweets(n) == [i \in 1..n |-> stored_tweet(i, StartTime - 2 * DAY_SECONDS)]

\* tweet_performance.json: ten tweets, none analysed yet
LearnFiles ==
    {[NoPerformanceData EXCEPT !.tweets = OldTweets(min_tweets_for_learning)]}

InitLearn ==
    /\ now = StartTime
    /\ \E r \in {READ_CAP - 2} :
         LET f == <<[month |-> MonthOf(now), reads_used |-> r,
                     writes_used |-> WRITE_CAP - 1]>>
         IN  /\ quota = load_quota(f, now).quota
             /\ quota_file = load_quota(f, now).file
    /\ last_call = NoCall
    /\ calls = 0
    /\ posted_log = <<>>
    /\ last_post_time = None
    /\ performance_data \in LearnFiles
    /\ insights = NoInsights
    /\ disk = FilesOf(performance_data, insights)
    /\ health = NoHealth
    /\ reply_system = NoReplySystem
    /\ last_checked_minute = None
    /\ pc = "idle"
    /\ job = NoJob
    /\ hist = [NoHist EXCEPT !.writes_at_start = quota.writes_used]

job_continues_never(raised) == FALSE

\* lines 1481 and 1495: an exception of analyze_performance ends the job
job_continues(raised) == ~raised

\* lines 1479-1481: an analysis is due and analyze_performance() runs
JobAnalyze ==
    /\ pc = "job"
    /\ ~job.analysis_ran
    /\ should_analyze_performance(performance_data, now)
    /\ LET pending == tweet_ids(performance_data, unanalyzed(performance_data, now))
       IN  \E resp \in FetchResponses(Take(pending, BATCH_MAX)) :
             LET r == analyze_performance(performance_data, insights, quota, now, resp)
             IN  /\ performance_data' = r.pd
                 /\ insights' = r.ins
                 /\ quota' = r.quota
                 /\ quota_file' = save_after(quota, quota', quota_file)
                 /\ disk' = IF r.saved
                            THEN save_learning_insights(
                                   save_performance_data(disk, r.pd), r.ins)
                            ELSE disk
                 /\ pc' = IF job_continues(r.raised) THEN "job" ELSE "returned"
                 /\ job' = [job EXCEPT !.analysis_ran = TRUE,
                                       !.result = IF r.raised THEN "error" ELSE @]
                 /\ hist' = [hist EXCEPT
                      !.fetches = IF r.fetch.called
                                  THEN Append(@, [at |-> now,
                                                  debited |-> r.quota # quota])
                                  ELSE @,
                      !.pass = <<[n |-> IF @ = <<>> THEN 1 ELSE @[1].n + 1,
                                  at |-> now, called |-> r.fetch.called,
                                  failed |-> pending # <<>> /\ r.fetch.metrics = <<>>,
                                  after_post |-> job.category # "",
                                  raised |-> r.raised,
                                  pending |-> pending,
                                  requested |-> r.fetch.requested,
                                  reads_before |-> quota.reads_used,
                                  pd_before |-> performance_data,
                                  ins_before |-> insights]>>]
    /\ UNCHANGED <<now, quotaCallVars, posted_log, last_post_time,
                   last_checked_minute, health, reply_system>>

NextLearn ==
    \/ TickSameMinute
    \/ TickNoSlot
    \/ TickSlot
    \/ JobAnalyze
    \/ JobStart
    \/ PostGateRefuses
    \/ PostSlotSkipped
    \/ PostNoArticle
    \/ PostPrepared
    \/ PublishConfirmed
    \/ SuccessStep
    \/ SuccessReturn
    \/ StepRaisesRetry
    \/ StepRaisesGiveUp
    \/ PublishRejected
    \/ PublishRetry
    \/ PublishGiveUp
    \/ JobBackup
    \/ JobDone

SpecLearn == InitLearn /\ [][NextLearn]_vars

---------------------------------------------------------------------------
(* Properties of the job with its analysis step, checked under SpecLearn *)

\* C13 as stated: a tick performs a posting step or, only otherwise, an
\* analysis step, never both: no publish call is made in a job whose
\* analysis step fetched metrics.
C13_PostingOrAnalysisNotBoth ==
    ~(/\ pc = "publish"
      /\ job.analysis_ran
      /\ hist.pass[1].called)

\* C13 amended: the analysis step runs only inside the job of a tick whose
\* minute is a posting time, before the posting step of that job and never
\* after it; when analyze_performance returns normally the posting step of
\* the same job follows in the same tick.
C13_AnalysisThenPosting ==
    /\ job.analysis_ran =>
          /\ pc \in {"job", "post_main", "publish", "confirmed", "returned"}
          /\ job.current_minute \in MAIN_POSTING_TIMES
          /\ hist.pass[1].at \div 60 = hist.jobs_started[Len(hist.jobs_started)]
    /\ hist.pass # <<>> =>
          /\ HHMM(hist.pass[1].at) \in MAIN_POSTING_TIMES
          /\ ~hist.pass[1].after_post
    /\ pc = "job" /\ job.analysis_ran => ENABLED JobStart
    /\ pc = "returned" /\ job.analysis_ran /\ ~hist.pass[1].raised =>
          job.category # ""

\* an analysis completed and a publish call is made in the same tick
C13_Witness ==
    /\ pc = "publish"
    /\ job.analysis_ran
    /\ hist.pass[1].called
    /\ performance_data.last_analysis = hist.pass[1].at
    /\ now = hist.pass[1].at

\* C16: the analysis uses at most one read per day: after a metrics fetch of
\* an analysis pass no further fetch is made within the following 24 hours.
C16_OneFetchPerDay ==
    \A i, j \in 1..Len(hist.fetches) :
        i < j => hist.fetches[j].at - hist.fetches[i].at >= DAY_SECONDS

\* C17: when fetch_tweet_metrics comes back without metrics, the pass changes
\* no record, the insights and last_analysis stay as they were, the posting
\* step of the same job still runs, and the analysis is due again at the next
\* job.
C17_FailedFetchChangesNothing ==
    hist.pass # <<>> /\ hist.pass[1].failed =>
        LET p == hist.pass[1] IN
        /\ ~p.raised
        /\ \A i \in 1..Len(p.pd_before.tweets) :
              performance_data.tweets[i] = p.pd_before.tweets[i]
        /\ performance_data.last_analysis = p.pd_before.last_analysis
        /\ performance_data.total_analyzed = p.pd_before.total_analyzed
        /\ insights = p.ins_before
        /\ pc = "job" /\ job.analysis_ran => ENABLED JobStart
        /\ pc = "returned" /\ job.analysis_ran => job.category # ""
        /\ pc = "job" /\ ~job.analysis_ran =>
              /\ should_analyze_performance(performance_data, now)
              /\ ENABLED JobAnalyze

\* get_tweets raised, and the job goes on to a publish call
C17_Witness ==
    /\ pc = "publish"
    /\ job.analysis_ran
    /\ hist.pass[1].failed
    /\ hist.pass[1].called
    /\ quota.reads_used = hist.pass[1].reads_before

---------------------------------------------------------------------------
(* SpecRecords: the PerformanceLearningSystem alone.  Tweets are recorded, *)
(* should_analyze_performance is asked and, when it says so, the analysis  *)
(* runs, as lines 1479-1481 do, while the clock moves on in steps of half  *)
(* a day.                                                                  *)

MaxRecCalls == 3       \* calls of the learning system explored per run
RecSteps == 3          \* half days the clock moves on

HalfDay == DAY_SECONDS \div 2
RecEnd == StartTime + RecSteps * HalfDay

\* tweet_performance.json as earlier runs can have left it, nothing analysed
RecordFiles ==
    {[NoPerformanceData EXCEPT !.tweets = OldTweets(n)] :
        n \in {min_tweets_for_learning - 2, min_tweets_for_learning - 1,
               min_tweets_for_learning}}

InitRecords ==
    /\ now = StartTime
    /\ \E r \in {READ_CAP - 2, READ_CAP} :
         LET f == <<[month |-> MonthOf(now), reads_used |-> r, writes_used |-> 0]>>
         IN  /\ quota = load_quota(f, now).quota
             /\ quota_file = load_quota(f, now).file
    /\ last_call = NoCall
    /\ calls = 0
    /\ posted_log = <<>>
    /\ last_post_time = None
    /\ performance_data \in RecordFiles
    /\ insights = NoInsights
    /\ disk = FilesOf(performance_data, insights)
    /\ health = NoHealth
    /\ reply_system = NoReplySystem
    /\ last_checked_minute = None
    /\ pc = "idle"
    /\ job = NoJob
    /\ hist = NoHist

RecCalled(op, result) ==
    /\ calls < MaxRecCalls
    /\ calls' = calls + 1
    /\ last_call' = [op |-> op, count |-> 1, at |-> now, result |-> result,
                     reads_before |-> quota.reads_used,
                     writes_before |-> quota.writes_used]

\* record_tweet_posted with a new tweet id or with the id recorded last
RecordTweet ==
    /\ RecCalled("record_tweet_posted", TRUE)
    /\ \E id \in {Len(performance_data.tweets), Len(performance_data.tweets) + 1} :
         performance_data' =
           record_tweet_posted(performance_data,
             tweet_record(id, "EPL", HHMM(now), should_use_emoji(insights),
                          FALSE, now))
    /\ disk' = save_performance_data(disk, performance_data')
    /\ UNCHANGED <<now, quota, quota_file, posted_log, last_post_time, insights,
                   last_checked_minute, pc, job, health, reply_system, hist>>

\* should_analyze_performance() is asked; it changes nothing
ShouldAnalyze ==
    /\ last_call' = [op |-> "should_analyze_performance", count |-> 1, at |-> now,
                     result |-> should_analyze_performance(performance_data, now),
                     reads_before |-> quota.reads_used,
                     writes_before |-> quota.writes_used]
    /\ UNCHANGED <<now, quota, quota_file, calls, botVars>>

\* lines 1479-1481: should_analyze_performance() is true, analyze_performance()
AnalyzeCall ==
    /\ should_analyze_performance(performance_data, now)
    /\ LET pending == tweet_ids(performance_data, unanalyzed(performance_data, now))
       IN  \E resp \in FetchResponses(Take(pending, BATCH_MAX)) :
             LET r == analyze_performance(performance_data, insights, quota, now, resp)
             IN  /\ RecCalled("analyze_performance", ~r.raised)
                 /\ performance_data' = r.pd
                 /\ insights' = r.ins
                 /\ quota' = r.quota
                 /\ quota_file' = save_after(quota, quota', quota_file)
                 /\ disk' = IF r.saved
                            THEN save_learning_insights(
                                   save_performance_data(disk, r.pd), r.ins)
                            ELSE disk
                 /\ hist' = [hist EXCEPT
                      !.fetches = IF r.fetch.called
                                  THEN Append(@, [at |-> now,
                                                  debited |-> r.quota # quota])
                                  ELSE @,
                      !.pass = <<[n |-> IF @ = <<>> THEN 1 ELSE @[1].n + 1,
                                  at |-> now, called |-> r.fetch.called,
                                  failed |-> pending # <<>> /\ r.fetch.metrics = <<>>,
                                  after_post |-> FALSE,
                                  raised |-> r.raised,
                                  pending |-> pending,
                                  requested |-> r.fetch.requested,
                                  reads_before |-> quota.reads_used,
                                  pd_before |-> performance_data,
                                  ins_before |-> insights]>>]
    /\ UNCHANGED <<now, posted_log, last_post_time, last_checked_minute, pc, job,
                   health, reply_system>>

\* half a day passes
HalfDayPasses ==
    /\ now + HalfDay <= RecEnd
    /\ now' = now + HalfDay
    /\ UNCHANGED <<quota, quota_file, last_call, calls, botVars>>

NextRecords ==
    \/ RecordTweet
    \/ ShouldAnalyze
    \/ AnalyzeCall
    \/ HalfDayPasses

SpecRecords == InitRecords /\ [][NextRecords]_vars

---------------------------------------------------------------------------
(* SpecBatch: the analysis on a backlog longer than one batch, more than   *)
(* BATCH_MAX tweets waiting for their metrics.                             *)

InitBatch ==
    /\ now = StartTime
    /\ \E r \in {READ_CAP - 1, READ_CAP} :
         LET f == <<[month |-> MonthOf(now), reads_used |-> r, writes_used |-> 0]>>
         IN  /\ quota = load_quota(f, now).quota
             /\ quota_file = load_quota(f, now).file
    /\ last_call = NoCall
    /\ calls = 0
    /\ posted_log = <<>>
    /\ last_post_time = None
    /\ performance_data = [NoPerformanceData EXCEPT !.tweets = OldTweets(BATCH_MAX + 1)]
    /\ insights = NoInsights
    /\ disk = FilesOf(performance_data, insights)
    /\ health = NoHealth
    /\ reply_system = NoReplySystem
    /\ last_checked_minute = None
    /\ pc = "idle"
    /\ job = NoJob
    /\ hist = NoHist

NextBatch ==
    \/ ShouldAnalyze
    \/ AnalyzeCall
    \/ HalfDayPasses

SpecBatch == InitBatch /\ [][NextBatch]_vars

---------------------------------------------------------------------------
(* Properties of the learning system, checked under SpecRecords and SpecBatch *)

\* C14 as stated: should_analyze_performance returns true iff the last
\* analysis is at least 24 hours old (or there was none), a record not yet
\* analysed exists and the read quota admits one more read.
C14_DueIffDayUnanalyzedAndQuota ==
    last_call.op = "should_analyze_performance" /\ last_call.at = now =>
        (last_call.result <=>
            /\ \/ performance_data.last_analysis = None
               \/ now - performance_data.last_analysis >= 24 * 3600
            /\ \E i \in 1..Len(performance_data.tweets) :
                  ~performance_data.tweets[i].analyzed
            /\ quota.reads_used + 1 <= 100)

\* C14 amended: should_analyze_performance returns true iff either no
\* analysis has completed yet and at least 10 tweets are recorded, or the last
\* analysis is at least 24 hours old and a record not yet analysed exists;
\* the read quota plays no part.
C14_DueIffTenRecordedOrDayUnanalyzed ==
    last_call.op = "should_analyze_performance" /\ last_call.at = now =>
        (last_call.result <=>
            \/ /\ performance_data.last_analysis = None
               /\ Len(performance_data.tweets) >= 10
            \/ /\ performance_data.last_analysis # None
               /\ now - performance_data.last_analysis >= 24 * 3600
               /\ \E i \in 1..Len(performance_data.tweets) :
                     ~performance_data.tweets[i].analyzed)

\* exactly 24 hours after an analysis that left a record pending, with the
\* read quota used up, the answer is true
C14_Witness ==
    /\ last_call.op = "should_analyze_performance"
    /\ last_call.at = now
    /\ last_call.result
    /\ performance_data.last_analysis # None
    /\ now - performance_data.last_analysis = 24 * 3600
    /\ quota.reads_used = 100

\* C15 as stated: an analysis pass makes at most one fetch call, for all the
\* pending tweet ids as one batch, debits at most one read, and makes no
\* call when reads_used >= 100.
C15_OneBatchOfAllPending ==
    hist.pass # <<>> =>
        LET p == hist.pass[1] IN
        /\ Len(hist.fetches) <= p.n
        /\ p.called => p.requested = p.pending
        /\ quota.reads_used - p.reads_before \in {0, 1}
        /\ p.reads_before >= 100 => ~p.called /\ quota.reads_used = p.reads_before

\* C15 amended: an analysis pass makes at most one fetch call, for the
\* pending tweet ids as one batch, the first 100 of them when more are
\* pending, debits at most one read, and makes no call when
\* reads_used >= 100.
C15_OneBatchOfFirstHundred ==
    hist.pass # <<>> =>
        LET p == hist.pass[1] IN
        /\ Len(hist.fetches) <= p.n
        /\ p.called =>
              /\ Len(p.requested) = (IF Len(p.pending) < 100 THEN Len(p.pending) ELSE 100)
              /\ \A k \in 1..Len(p.requested) : p.requested[k] = p.pending[k]
        /\ ~p.called => quota.reads_used = p.reads_before
        /\ quota.reads_used - p.reads_before \in {0, 1}
        /\ p.reads_before >= 100 => ~p.called /\ quota.reads_used = p.reads_before

\* a pass with 101 tweets pending asked for 100 of them and spent one read
C15_Witness ==
    /\ hist.pass # <<>>
    /\ hist.pass[1].called
    /\ Len(hist.pass[1].pending) = 101
    /\ Len(hist.pass[1].requested) = 100
    /\ quota.reads_used = hist.pass[1].reads_before + 1

\* C18: a record is created with analyzed = false and metrics = None; in
\* every state analyzed is true iff metrics is present; a record once
\* analysed is never changed by a later pass.
C18_RecordsAnalyzedOnce ==
    /\ [](\A i \in 1..Len(performance_data.tweets) :
             performance_data.tweets[i].analyzed <=>
                 performance_data.tweets[i].metrics # <<>>)
    /\ [][Len(performance_data'.tweets) # Len(performance_data.tweets) =>
             /\ Len(performance_data'.tweets) = Len(performance_data.tweets) + 1
             /\ ~performance_data'.tweets[Len(performance_data'.tweets)].analyzed
             /\ performance_data'.tweets[Len(performance_data'.tweets)].metrics = <<>>]_vars
    /\ [][\A i \in 1..Len(performance_data.tweets) :
             performance_data.tweets[i].analyzed =>
                 performance_data'.tweets[i] = performance_data.tweets[i]]_vars

\* a second pass stored metrics while records of the first pass were there
C18_Witness ==
    /\ hist.pass # <<>>
    /\ hist.pass[1].n = 2
    /\ hist.pass[1].pd_before.total_analyzed > 0
    /\ performance_data.total_analyzed > hist.pass[1].pd_before.total_analyzed

\* C19: while fewer than 10 analysed posts exist, category_performance is
\* empty and get_recommended_category takes the cold-start path.
C19_EmptyBelowTenAnalyzed ==
    Cardinality(Counted(performance_data.tweets)) < 10 =>
        /\ insights.category_performance = <<>>
        /\ cold_start(insights)

\* C20: a tweet id recorded twice is counted once: the count of a category
\* is at most the number of different analysed tweet ids of that category.
C20_SameIdCountedOnce ==
    \A c \in DOMAIN insights.category_performance :
        insights.category_performance[c].count <=
            Cardinality({performance_data.tweets[i].id :
                            i \in {j \in Counted(performance_data.tweets) :
                                      performance_data.tweets[j].category = c}})


---------------------------------------------------------------------------
(* SpecMetrics: fetch_tweet_metrics called for one tweet id, the API       *)
(* answering with one tweet whose counts are drawn from MetricPayloads.    *)

MaxMetricCalls == 2    \* fetch_tweet_metrics calls explored per run

\* the tweets get_tweets can return for the id
MetricPayloads ==
    {[like_count |-> l, retweet_count |-> rt, reply_count |-> rp,
      quote_count |-> q, non_public_metrics |-> npm, impression_count |-> imp] :
        l \in {0, 1, 10}, rt \in {0, 5}, rp \in {0, 2}, q \in {0, 1},
        npm \in {"dict"}, imp \in {None, 0, 1, 1000}}
      \cup
    {[like_count |-> l, retweet_count |-> rt, reply_count |-> rp,
      quote_count |-> q, non_public_metrics |-> npm, impression_count |-> None] :
        l \in {0, 1, 10}, rt \in {0, 5}, rp \in {0, 2}, q \in {0, 1},
        npm \in {"none", "noattr"}}

InitMetrics ==
    /\ now = StartTime
    /\ \E r \in {0, READ_CAP - 1} :
         LET f == <<[month |-> MonthOf(now), reads_used |-> r, writes_used |-> 0]>>
         IN  /\ quota = load_quota(f, now).quota
             /\ quota_file = load_quota(f, now).file
    /\ last_call = NoCall
    /\ calls = 0
    /\ IdleRest

\* learning_system.fetch_tweet_metrics(["1"]) with the API returning tweet m
FetchMetricsCall ==
    /\ calls < MaxMetricCalls
    /\ calls' = calls + 1
    /\ \E m \in MetricPayloads :
         LET f == fetch_tweet_metrics(quota, <<1>>, [kind |-> "data", data |-> (1 :> m)])
         IN  /\ quota' = f.quota
             /\ quota_file' = save_after(quota, quota', quota_file)
             /\ last_call' = [op |-> "fetch_tweet_metrics", count |-> 1, at |-> now,
                              result |-> f.metrics, tweet |-> m, called |-> f.called,
                              reads_before |-> quota.reads_used,
                              writes_before |-> quota.writes_used]
    /\ UNCHANGED <<now, botVars>>

NextMetrics == FetchMetricsCall

SpecMetrics == InitMetrics /\ [][NextMetrics]_vars

---------------------------------------------------------------------------
(* Properties of the metrics entries, checked under SpecMetrics *)

\* the entry fetch_tweet_metrics returned for the tweet, if it returned one
FetchedEntry == last_call.result[1]

Fetched == last_call.op = "fetch_tweet_metrics" /\ last_call.result # <<>>

\* the entry that lines 279-287 as committed build for the tweet of the call
CommittedEntry == metrics_entry(last_call.tweet)

\* C21: for a fetched tweet with impressions > 0 an entry is built, and the
\* engagement_rate of an entry with impressions > 0 equals
\* (likes * 1.0 + retweets * 2.0 + replies * 3.0) / impressions.
C21_RateIsThreeWeightsOverImpressions ==
    /\ (last_call.op = "fetch_tweet_metrics"
          /\ impression_count(last_call.tweet, 0) > 0)
         => CommittedEntry # SyntaxError
    /\ Fetched /\ FetchedEntry.impressions > 0 =>
          LET e == FetchedEntry
          IN  e.engagement_rate.num * e.impressions
                = (e.likes + 2 * e.retweets + 3 * e.replies) * e.engagement_rate.den

\* What holds of the file read with one comma at line 284: for an entry
\* with impressions > 0, engagement_rate equals
\* (likes * 1.0 + retweets * 2.0 + replies * 3.0 + quotes * 2.5) / impressions;
\* without quotes, 10 likes, 5 retweets, 2 replies and 1000 impressions give
\* 26 / 1000.
C21_RateIsFourWeightsOverImpressions ==
    Fetched /\ FetchedEntry.impressions > 0 =>
        LET e == FetchedEntry
        IN  /\ 2 * e.engagement_rate.num * e.impressions
                 = (2 * e.likes + 4 * e.retweets + 6 * e.replies + 5 * e.quotes)
                     * e.engagement_rate.den
            /\ e.engagement_rate.den > 0
            /\ (e.likes = 10 /\ e.retweets = 5 /\ e.replies = 2 /\ e.quotes = 0
                  /\ e.impressions = 1000)
                 => e.engagement_rate.num * 1000 = 26 * e.engagement_rate.den

\* the file read with one comma at line 284: an entry with 1000 impressions
\* and a quote was returned.
C21_Witness ==
    /\ Fetched
    /\ FetchedEntry.impressions = 1000
    /\ FetchedEntry.likes = 10 /\ FetchedEntry.retweets = 5
    /\ FetchedEntry.replies = 2 /\ FetchedEntry.quotes = 1

\* C22: when the impression count of a fetched tweet is 0 or unavailable,
\* its engagement_rate is zero or no entry is made, and the divisor of the
\* rate is never zero (of the entries of the file read with one comma at
\* line 284; as committed it computes no rate at all).
C22_NoImpressionsNoRate ==
    /\ Fetched => FetchedEntry.engagement_rate.den # 0
    /\ (Fetched /\ FetchedEntry.impressions = 0)
          => FetchedEntry.engagement_rate.num = 0

---------------------------------------------------------------------------
(* Properties of the category statistics, checked under SpecRecords *)

\* the analysed records of category c in the current log
AnalyzedOf(c) ==
    {i \in 1..Len(performance_data.tweets) :
        /\ performance_data.tweets[i].analyzed
        /\ performance_data.tweets[i].category = c}

AnalyzedCategories ==
    {performance_data.tweets[i].category : i \in Counted(performance_data.tweets)}

\* the product of the record counts of the categories, the denominator the
\* averages of category_performance are held over
CategoryUnit ==
    ProdCount(performance_data.tweets, "category", AnalyzedCategories,
              Counted(performance_data.tweets))

\* a denominator every engagement_rate of the log divides
RateUnit == 2 * 1000

RECURSIVE SumRatesUpTo(_, _)
SumRatesUpTo(S, n) ==
    IF n = 0 THEN 0
    ELSE (IF n \in S
          THEN LET rate == performance_data.tweets[n].metrics[1].engagement_rate
               IN  rate.num * (RateUnit \div rate.den)
          ELSE 0) + SumRatesUpTo(S, n - 1)

\* the sum of engagement_rate over the records at S, in units of 1 / RateUnit
SumRates(S) == SumRatesUpTo(S, Len(performance_data.tweets))

\* an analysis pass has run to its end
PassCompleted ==
    /\ hist.pass # <<>>
    /\ ~hist.pass[1].raised
    /\ performance_data.last_analysis = hist.pass[1].at

\* C23: after a completed pass category_performance holds, for each
\* category with analysed records, their number as count and the arithmetic
\* mean of their engagement_rate as avg_engagement.
C23_AverageOfEngagementRate ==
    PassCompleted =>
        /\ DOMAIN insights.category_performance = AnalyzedCategories
        /\ \A c \in AnalyzedCategories :
              LET st == insights.category_performance[c]
              IN  /\ st.count = Cardinality(AnalyzedOf(c))
                  /\ st.avg_engagement * RateUnit * Cardinality(AnalyzedOf(c))
                       = 2 * CategoryUnit * SumRates(AnalyzedOf(c))

---------------------------------------------------------------------------
(* SpecSelect: the selection functions, called in a process whose first    *)
(* analysis of ten recorded tweets has just run, whatever the API answered.*)

\* the ten tweets the process found recorded
SelectTweets == [NoPerformanceData EXCEPT !.tweets = OldTweets(min_tweets_for_learning)]

\* the quota the process started with
SelectQuota ==
    [month |-> MonthOf(StartTime), reads_used |-> READ_CAP - 2, writes_used |-> 0]

InitSelect ==
    /\ now = StartTime
    /\ \E resp \in FetchResponses(tweet_ids(SelectTweets,
                                             unanalyzed(SelectTweets, now))) :
         LET r == analyze_performance(SelectTweets, NoInsights, SelectQuota, now, resp)
         IN  /\ performance_data = r.pd
             /\ insights = r.ins
             /\ quota = r.quota
             /\ quota_file = <<r.quota>>
             /\ disk = IF r.saved THEN FilesOf(r.pd, r.ins)
                       ELSE FilesOf(SelectTweets, NoInsights)
    /\ last_call = NoCall
    /\ calls = 0
    /\ posted_log = <<>>
    /\ last_post_time = None
    /\ health = NoHealth
    /\ reply_system = NoReplySystem
    /\ last_checked_minute = None
    /\ pc = "idle"
    /\ job = NoJob
    /\ hist = NoHist

\* a selection function is called and returns one of results
Selected(op, results) ==
    /\ \E res \in results :
         last_call' = [op |-> op, count |-> 1, at |-> now, result |-> res,
                       reads_before |-> quota.reads_used,
                       writes_before |-> quota.writes_used]
    /\ performance_data' = learner_after_selection(performance_data, insights).pd
    /\ insights' = learner_after_selection(performance_data, insights).ins
    /\ UNCHANGED <<now, quota, quota_file, calls, posted_log, last_post_time,
                   last_checked_minute, pc, job, disk, health, reply_system, hist>>

GetRecommendedCategory ==
    Selected("get_recommended_category",
             get_recommended_category(insights, Categories))

GetRecommendedTimeSlot ==
    Selected("get_recommended_time_slot",
             {get_recommended_time_slot(insights, HHMM(now))})

ShouldUseEmoji == Selected("should_use_emoji", {should_use_emoji(insights)})

ShouldUseCta == Selected("should_use_cta", {should_use_cta(insights)})

DetectCategory ==
    Selected("detect_category_with_learning",
             detect_category_with_learning(insights, now))

NextSelect ==
    \/ GetRecommendedCategory
    \/ GetRecommendedTimeSlot
    \/ ShouldUseEmoji
    \/ ShouldUseCta
    \/ DetectCategory
    \/ HalfDayPasses

SpecSelect == InitSelect /\ [][NextSelect]_vars

---------------------------------------------------------------------------
(* Properties of the selection functions, checked under SpecSelect *)

SelectionOps ==
    {"get_recommended_category", "get_recommended_time_slot", "should_use_emoji",
     "should_use_cta", "detect_category_with_learning"}

\* C24: a call of get_recommended_category, get_recommended_time_slot,
\* should_use_emoji, should_use_cta or detect_category_with_learning leaves
\* insights and performance_data (and their files) as they were.
C24_SelectionLeavesLearnedState ==
    [][(last_call'.op \in SelectionOps /\ last_call' # last_call)
         => /\ insights' = insights
            /\ performance_data' = performance_data
            /\ disk' = disk]_vars

\* C24 witness: a category was recommended from learned statistics, the
\* emoji and call-to-action impacts being known as well.
C24_Witness ==
    /\ last_call.op = "get_recommended_category"
    /\ ~cold_start(insights)
    /\ insights.emoji_impact # <<>>
    /\ insights.cta_effectiveness # <<>>
    /\ insights.time_slot_performance # <<>>

---------------------------------------------------------------------------
(* SpecStatus: two threads.  The scheduler thread debits the quota and     *)
(* asks for its status; the daemon thread of the health server answers GET *)
(* requests.  get_quota_status evaluates the five values of its dict one   *)
(* after the other and takes no lock, so the other thread can run between  *)
(* two of them.                                                            *)

MaxRequests == 2       \* GET requests explored per run

InitStatus ==
    /\ now = StartTime
    /\ \E r \in {0, READ_CAP - 1}, w \in {0, WRITE_CAP - 1} :
         LET f == <<[month |-> MonthOf(now), reads_used |-> r, writes_used |-> w]>>
         IN  /\ quota = load_quota(f, now).quota
             /\ quota_file = load_quota(f, now).file
    /\ last_call = NoCall
    /\ calls = 0
    /\ IdleRest

\* scheduler thread: quota_manager.get_quota_status() (lines 1522, 1544)
GetQuotaStatus ==
    /\ Called("get_quota_status", 1, get_quota_status(quota))
    /\ quota' = quota_after_status(quota)
    /\ quota_file' = save_after(quota, quota', quota_file)
    /\ UNCHANGED <<now, botVars>>

\* health thread: a GET request arrives, do_GET begins (lines 1583-1587)
HealthGet ==
    /\ health.pc = "idle"
    /\ health.requests < MaxRequests
    /\ health' = [health EXCEPT !.pc = "status", !.quota_status = <<>>,
                                !.response = <<>>, !.requests = @ + 1]
    /\ UNCHANGED <<now, quota, quota_file, last_call, calls, posted_log,
                   last_post_time, performance_data, insights,
                   last_checked_minute, pc, job, disk,
                   reply_system, hist>>

\* health thread: the next value of the status dict is evaluated from the
\* quota as it is now (lines 134-138)
HealthStatusValue ==
    /\ health.pc = "status"
    /\ Len(health.quota_status) < Len(StatusKeys)
    /\ LET key == StatusKeys[Len(health.quota_status) + 1]
       IN  health' = [health EXCEPT
                        !.quota_status = Append(@, get_quota_status(quota)[key])]
    /\ UNCHANGED <<now, quota, quota_file, last_call, calls, posted_log,
                   last_post_time, performance_data, insights,
                   last_checked_minute, pc, job, disk,
                   reply_system, hist>>

\* the dict get_quota_status returns from the values evaluated
status_dict(values) ==
    [reads_remaining |-> values[1], writes_remaining |-> values[2],
     reads_used |-> values[3], writes_used |-> values[4], month |-> values[5]]

\* health thread: get_quota_status returns and the response is written
\* from it, the learning status and last_post_time (lines 1588-1639)
HealthRespond ==
    /\ health.pc = "status"
    /\ Len(health.quota_status) = Len(StatusKeys)
    /\ health' = [health EXCEPT
          !.pc = "idle",
          !.response =
             <<[quota_status |-> status_dict(health.quota_status),
                total_analyzed |-> performance_data.total_analyzed,
                last_analysis |-> performance_data.last_analysis,
                pending |-> Cardinality({i \in 1..Len(performance_data.tweets) :
                                           ~performance_data.tweets[i].analyzed}),
                last_post |-> last_post_time]>>]
    /\ quota' = quota_after_status(quota)
    /\ quota_file' = save_after(quota, quota', quota_file)
    /\ UNCHANGED <<now, last_call, calls, posted_log, last_post_time,
                   performance_data, insights, last_checked_minute, pc, job,
                   disk, reply_system, hist>>

NextStatus ==
    \/ \E c \in Counts : UseRead(c)
    \/ \E c \in Counts : UseWrite(c)
    \/ GetQuotaStatus
    \/ HealthGet
    \/ HealthStatusValue
    \/ HealthRespond

SpecStatus == InitStatus /\ [][NextStatus]_vars

---------------------------------------------------------------------------
(* Properties of the status path, checked under SpecStatus *)

\* C25: get_quota_status and the GET handler leave the quota counters and
\* their file, the posted-URL log, the outcome records, the insights and
\* last_post_time unchanged.
C25_StatusPathOnlyReads ==
    [][(health' # health
          \/ (last_call'.op = "get_quota_status" /\ last_call' # last_call))
         => /\ quota' = quota
            /\ quota_file' = quota_file
            /\ posted_log' = posted_log
            /\ performance_data' = performance_data
            /\ insights' = insights
            /\ disk' = disk
            /\ last_post_time' = last_post_time]_vars

\* C25 witness: a GET was answered after the quota had been debited.
C25_Witness ==
    /\ health.pc = "idle"
    /\ health.response # <<>>
    /\ health.response[1].quota_status.reads_used > 0
    /\ health.response[1].quota_status.writes_used > 0

\* C26: every status returned to a GET request is a snapshot of the quota:
\* reads_used + reads_remaining = 100 and writes_used + writes_remaining =
\* 500.
C26_StatusIsSnapshot ==
    health.response # <<>> =>
        LET st == health.response[1].quota_status
        IN  /\ st.reads_used + st.reads_remaining = READ_CAP
            /\ st.writes_used + st.writes_remaining = WRITE_CAP

---------------------------------------------------------------------------
(* Property of the posted-URL log, checked under Spec *)

\* C30: has_been_posted(url) is true exactly for the URLs log_posted was
\* called with, whatever other URLs the log holds.
C30_ExactMembership ==
    \A url \in Urls : has_been_posted(posted_log, url) <=> url \in hist.logged

---------------------------------------------------------------------------
(* SpecStore: the stores and their files.  The process, started on ten     *)
(* recorded tweets, debits its quota and records tweets; a write of        *)
(* api_quota.json can fail; the process can be killed in the middle of a   *)
(* write, be interrupted (SIGINT) or terminated (SIGTERM) while it sleeps, *)
(* and is started again from the files.                                    *)

MaxRestarts == 1       \* restarts explored per run

Running == pc = "idle"

\* use_read(1) whose save_quota comes to outcome
StoreUseRead(outcome) ==
    /\ calls < MaxRecCalls
    /\ calls' = calls + 1
    /\ LET q2 == use_read(quota, 1)
       IN  /\ quota' = IF outcome = "ok" THEN q2
                       ELSE quota_after_failed_save(quota, q2)
           /\ quota_file' = IF q2 # quota THEN written(quota_file, q2, outcome)
                            ELSE quota_file
    /\ last_call' = [op |-> "use_read", count |-> 1, at |-> now,
                     result |-> can_read(quota, 1), save |-> outcome,
                     reads_before |-> quota.reads_used,
                     writes_before |-> quota.writes_used]
    /\ UNCHANGED <<now, botVars>>

\* use_write(1) whose save_quota comes to outcome
StoreUseWrite(outcome) ==
    /\ calls < MaxRecCalls
    /\ calls' = calls + 1
    /\ LET q2 == use_write(quota, 1)
       IN  /\ quota' = IF outcome = "ok" THEN q2
                       ELSE quota_after_failed_save(quota, q2)
           /\ quota_file' = IF q2 # quota THEN written(quota_file, q2, outcome)
                            ELSE quota_file
    /\ last_call' = [op |-> "use_write", count |-> 1, at |-> now,
                     result |-> can_write(quota, 1), save |-> outcome,
                     reads_before |-> quota.reads_used,
                     writes_before |-> quota.writes_used]
    /\ UNCHANGED <<now, botVars>>

\* what the stores hold in memory
Memory == [quota |-> quota, pd |-> performance_data, ins |-> insights]

\* what a process started now would load from the files
Loaded ==
    [quota |-> load_quota(quota_file, now).quota,
     pd |-> load_performance_data(disk.performance),
     ins |-> load_learning_insights(disk.insights)]

\* the process is killed during save_quota of use_write(1) or during
\* save_performance_data of record_tweet_posted: the file is as before (the
\* write had not begun), unreadable (begun, not ended) or written
KilledInSave ==
    /\ Running
    /\ hist.crashes < MaxRestarts
    /\ \E store \in {"quota", "performance"}, left \in SaveOutcomes :
         LET q2 == use_write(quota, 1)
             pd2 == record_tweet_posted(performance_data,
                      tweet_record(Len(performance_data.tweets) + 1, "EPL",
                                   HHMM(now), should_use_emoji(insights), FALSE, now))
         IN  /\ store = "quota" => q2 # quota
             /\ quota_file' = IF store = "quota"
                              THEN written(quota_file, q2, left) ELSE quota_file
             /\ disk' = IF store = "performance"
                        THEN [disk EXCEPT !.performance = written(@, pd2, left)]
                        ELSE disk
             /\ last_call' =
                   [op |-> "killed_in_save", count |-> 1, at |-> now,
                    result |-> FALSE, store |-> store,
                    before |-> Loaded,
                    after |-> IF store = "quota"
                              THEN [Loaded EXCEPT !.quota = q2]
                              ELSE [Loaded EXCEPT !.pd = pd2],
                    reads_before |-> quota.reads_used,
                    writes_before |-> quota.writes_used]
    /\ pc' = "killed"
    /\ UNCHANGED <<now, quota, calls, posted_log, last_post_time,
                   performance_data, insights, last_checked_minute, job,
                   health, reply_system, hist>>

\* SIGINT while the scheduler sleeps: KeyboardInterrupt reaches __main__,
\* which saves the performance data and the insights (lines 1791-1803)
Interrupted ==
    /\ Running
    /\ disk' = save_learning_insights(
                 save_performance_data(disk, performance_data), insights)
    /\ pc' = "exited"
    /\ UNCHANGED <<now, quota, quota_file, last_call, calls, posted_log,
                   last_post_time, performance_data, insights,
                   last_checked_minute, job, health, reply_system, hist>>

\* SIGTERM while the scheduler sleeps: no handler is installed, the process
\* ends at once
Terminated ==
    /\ Running
    /\ pc' = "exited"
    /\ UNCHANGED <<now, quota, quota_file, last_call, calls, posted_log,
                   last_post_time, performance_data, insights,
                   last_checked_minute, job, disk, health, reply_system, hist>>

\* the process is started again: the managers load their files
Restarted ==
    /\ pc \in {"killed", "exited"}
    /\ hist.crashes < MaxRestarts
    /\ quota' = load_quota(quota_file, now).quota
    /\ quota_file' = load_quota(quota_file, now).file
    /\ performance_data' = load_performance_data(disk.performance)
    /\ insights' = load_learning_insights(disk.insights)
    /\ last_post_time' = None
    /\ pc' = "idle"
    /\ hist' = [hist EXCEPT !.crashes = @ + 1]
    /\ UNCHANGED <<now, last_call, calls, posted_log, last_checked_minute, job,
                   disk, health, reply_system>>

NextStore ==
    \/ Running /\ \E o \in SaveOutcomes : StoreUseRead(o)
    \/ Running /\ \E o \in SaveOutcomes : StoreUseWrite(o)
    \/ Running /\ RecordTweet
    \/ KilledInSave
    \/ Interrupted
    \/ Terminated
    \/ Restarted

InitStore ==
    /\ now = StartTime
    /\ quota = SelectQuota
    /\ quota_file = <<quota>>
    /\ last_call = NoCall
    /\ calls = 0
    /\ posted_log = <<>>
    /\ last_post_time = None
    /\ performance_data = SelectTweets
    /\ insights = NoInsights
    /\ disk = FilesOf(performance_data, insights)
    /\ health = NoHealth
    /\ reply_system = NoReplySystem
    /\ last_checked_minute = None
    /\ pc = "idle"
    /\ job = NoJob
    /\ hist = NoHist

SpecStore == InitStore /\ [][NextStore]_vars

---------------------------------------------------------------------------
(* Properties of the stores, checked under SpecStore *)

\* C27: when the process has exited, on SIGINT or on SIGTERM, the files hold
\* the quota, the outcome records and the insights that were in memory.
C27_FlushedAtExit == pc = "exited" => Loaded = Memory

\* the state after a use_read or use_write whose write of api_quota.json
\* failed: True was returned, the counter is incremented in memory and
\* can_read, can_write and the status go by the value in memory
FailedSaveKeptCounting ==
    (/\ last_call.op \in {"use_read", "use_write"}
     /\ last_call.at = now
     /\ last_call.save # "ok"
     /\ hist.crashes = 0
     /\ last_call.result)
      => /\ last_call.op = "use_read" =>
              /\ quota.reads_used = last_call.reads_before + 1
              /\ get_quota_status(quota).reads_remaining
                   = READ_CAP - (last_call.reads_before + 1)
              /\ can_read(quota, 1) <=> last_call.reads_before + 2 <= READ_CAP
         /\ last_call.op = "use_write" =>
              /\ quota.writes_used = last_call.writes_before + 1
              /\ get_quota_status(quota).writes_remaining
                   = WRITE_CAP - (last_call.writes_before + 1)
              /\ can_write(quota, 1) <=> last_call.writes_before + 2 <= WRITE_CAP

\* C28: a use_read or use_write whose write of api_quota.json failed has
\* returned True with the counter incremented in memory, the status shows
\* the value in memory, and the process runs on.
C28_FailedSaveKeepsCounting ==
    /\ []FailedSaveKeptCounting
    /\ [][(last_call' # last_call /\ last_call'.op \in {"use_read", "use_write"})
            => pc' = "idle"]_vars

\* C28 witness: a read was debited while the file could not be written; the
\* file no longer holds what the memory does, and the process runs.
C28_Witness ==
    /\ last_call.op = "use_read"
    /\ last_call.save = "cut"
    /\ last_call.result
    /\ quota.reads_used = READ_CAP - 1
    /\ quota_file = <<Unreadable>>
    /\ Running

\* C29: after a restart that follows a kill in the middle of a write, the
\* stores hold what the files held before that write or what it was writing;
\* the counters of the running month are not back at 0.
C29_KillInSaveKeepsOldOrNew ==
    (Running /\ last_call.op = "killed_in_save")
      => /\ Memory \in {last_call.before, last_call.after}
         /\ quota.reads_used >= last_call.before.quota.reads_used

---------------------------------------------------------------------------
(* The maturation window of an analysis pass, under SpecRecords.           *)

\* C31: a pass asks metrics only for ids of records that were, before the
\* pass, not analysed and posted more than 24 hours earlier; a record it
\* marks analysed was posted more than 24 hours before the pass, so no
\* analysed record is younger than that.
C31_OnlyMatureRecordsAnalyzed ==
    /\ [](\A i \in 1..Len(performance_data.tweets) :
             performance_data.tweets[i].analyzed =>
                 performance_data.tweets[i].posted_at < now - DAY_SECONDS)
    /\ [][\A i \in 1..Len(performance_data.tweets) :
              (performance_data'.tweets[i].analyzed
                  /\ ~performance_data.tweets[i].analyzed) =>
                 performance_data.tweets[i].posted_at < now - DAY_SECONDS]_vars
    /\ [][hist'.pass # hist.pass =>
              \A k \in 1..Len(hist'.pass[1].requested) :
                 \E i \in 1..Len(performance_data.tweets) :
                    /\ performance_data.tweets[i].id = hist'.pass[1].requested[k]
                    /\ ~performance_data.tweets[i].analyzed
                    /\ performance_data.tweets[i].posted_at
                          < now - DAY_SECONDS]_vars

\* a pass has marked records while a record younger than 24 hours was in
\* the file, and that record is still not analysed
C31_Witness ==
    /\ hist.pass # <<>>
    /\ last_call.op = "analyze_performance"
    /\ \E i \in 1..Len(hist.pass[1].pd_before.tweets) :
          /\ performance_data.tweets[i].analyzed
          /\ ~hist.pass[1].pd_before.tweets[i].analyzed
    /\ \E j \in 1..Len(hist.pass[1].pd_before.tweets) :
          /\ hist.pass[1].pd_before.tweets[j].posted_at
                >= hist.pass[1].at - DAY_SECONDS
          /\ ~performance_data.tweets[j].analyzed

---------------------------------------------------------------------------
(* SpecChoice: get_recommended_category called with a list of categories,  *)
(* on the insights an analysis of ten recorded tweets has left.  The two   *)
(* random draws of the function are inputs of the call.                    *)

MaxAvailable == 3      \* longest list of available categories explored

\* the categories the lists are made of: two with tweets on record, one
\* without
ChoiceCategories == {"EPL", "Crypto", "F1"}

AvailableLists ==
    UNION {[1..n -> ChoiceCategories] : n \in 0..MaxAvailable}

\* lines 527-533: category_scores, by position in available_categories
category_scores(ins, available) ==
    [k \in 1..Len(available) |->
        IF available[k] \in DOMAIN ins.category_performance
        THEN ins.category_performance[available[k]].avg_engagement
        ELSE 0]

max_category_last(scores) ==
    CHOOSE k \in DOMAIN scores :
        /\ \A j \in DOMAIN scores : scores[j] <= scores[k]
        /\ \A j \in DOMAIN scores : j > k => scores[j] < scores[k]

\* line 536: max(category_scores, key=category_scores.get) goes through the
\* dict in insertion order and keeps the first key of the greatest score
max_category(scores) ==
    CHOOSE k \in DOMAIN scores :
        /\ \A j \in DOMAIN scores : scores[j] <= scores[k]
        /\ \A j \in DOMAIN scores : j < k => scores[j] < scores[k]

\* get_recommended_category(available) with random.random() < 0.8 being
\* exploit and random.choice taking position pick; random.choice of an
\* empty list raises IndexError
recommended_category(ins, available, exploit, pick) ==
    IF cold_start(ins)
    THEN (IF available = <<>> THEN "IndexError" ELSE available[pick])
    ELSE IF exploit /\ category_scores(ins, available) # <<>>
    THEN available[max_category(category_scores(ins, available))]
    ELSE IF available = <<>> THEN "IndexError" ELSE available[pick]

InitChoice == InitSelect

RecommendFrom ==
    \E available \in AvailableLists, exploit \in BOOLEAN,
       pick \in 1..MaxAvailable :
      /\ available # <<>> => pick <= Len(available)
      /\ available = <<>> => pick = 1
      /\ Selected("get_recommended_category",
                  {[available |-> available, exploit |-> exploit,
                    category |-> recommended_category(insights, available,
                                                      exploit, pick)]})

NextChoice == RecommendFrom

SpecChoice == InitChoice /\ [][NextChoice]_vars

\* the average engagement learned for a category, 0 without statistics
LearnedAverage(c) ==
    IF c \in DOMAIN insights.category_performance
    THEN insights.category_performance[c].avg_engagement
    ELSE 0

\* C32: for a non-empty list get_recommended_category returns a member of
\* the list; with category statistics and the exploitation branch taken, no
\* category of the list has a greater average than the one returned, and
\* no category of equal average stands before it in the list.
C32_RecommendedIsFirstBest ==
    (last_call.op = "get_recommended_category"
        /\ last_call.result.available # <<>>) =>
      LET av == last_call.result.available
          c == last_call.result.category
      IN  /\ \E k \in 1..Len(av) : av[k] = c
          /\ (~cold_start(insights) /\ last_call.result.exploit) =>
                \A j \in 1..Len(av) :
                   /\ LearnedAverage(av[j]) <= LearnedAverage(c)
                   /\ LearnedAverage(av[j]) = LearnedAverage(c) =>
                         \E k \in 1..j : av[k] = c

\* the exploitation branch chose between two listed categories of the same
\* positive average and a third without statistics
C32_Witness ==
    /\ last_call.op = "get_recommended_category"
    /\ last_call.result.exploit
    /\ ~cold_start(insights)
    /\ Len(last_call.result.available) = 3
    /\ last_call.result.available[1] \notin DOMAIN insights.category_performance
    /\ last_call.result.available[2] = "Crypto"
    /\ last_call.result.available[3] = "EPL"
    /\ LearnedAverage("EPL") = LearnedAverage("Crypto")
    /\ LearnedAverage("EPL") > 0
    /\ last_call.result.category = "Crypto"

---------------------------------------------------------------------------
(* SpecFault: the first FaultRunLength seconds of the posting process,     *)
(* with a posted_links.txt that cannot always be opened: log_posted has no *)
(* handler of its own, so its OSError reaches the except clause of line    *)
(* 1441, inside the retry loop.  Its message holds neither "403",          *)
(* "forbidden" nor "duplicate".                                            *)

FaultRunLength == 90   \* seconds explored from the start of the process

FaultEnd == StartTime + FaultRunLength

NextFault ==
    \/ now <= FaultEnd /\ TickSameMinute
    \/ now <= FaultEnd /\ TickNoSlot
    \/ now <= FaultEnd /\ TickSlot
    \/ JobStart
    \/ PostGateRefuses
    \/ PostSlotSkipped
    \/ PostNoArticle
    \/ PostPrepared
    \/ PublishConfirmed
    \/ SuccessStep
    \/ SuccessReturn
    \/ StepRaisesRetry
    \/ StepRaisesGiveUp
    \/ PublishRejected
    \/ PublishRetry
    \/ PublishGiveUp
    \/ JobBackup
    \/ JobDone

SpecFault == Init /\ [][NextFault]_vars

\* C33: when a bookkeeping statement after a successful publish raises, the
\* article is not published a second time and the write quota is debited
\* at most once for it: no article is confirmed twice, and the debits made
\* never exceed the number of articles published.
C33_NoSecondPublishAfterRaise ==
    /\ \A i, j \in 1..Len(hist.confirmed) :
          i # j => hist.confirmed[i] # hist.confirmed[j]
    /\ quota.writes_used - hist.writes_at_start
          <= Cardinality(Range(hist.confirmed))

\* C34: when post_main_content_with_learning returns False, writes_used, the
\* posted-URL log, last_post_time and the recorded tweets are what they
\* were when the call was entered.
C34_FalseReturnChangesNothing ==
    (pc = "returned" /\ job.result = "false") =>
        /\ quota.writes_used = hist.writes_at_entry
        /\ posted_log = hist.log_at_entry
        /\ last_post_time = hist.stamp_at_entry
        /\ performance_data.tweets = hist.records_at_entry

\* C35: one run of the main content job makes at most one successful
\* publish; a backup call is made only after the primary call returned
\* False, only once, and for a category other than the primary one.
C35_OnePublishPerJob ==
    /\ [](hist.published - hist.published_at_job <= 1)
    /\ [][(pc = "returned" /\ pc' = "post_main") =>
             /\ job.result = "false"
             /\ ~job.is_backup
             /\ job'.is_backup
             /\ job'.category # job.category]_vars
    /\ [][(job'.is_backup /\ ~job.is_backup) =>
             (pc = "returned" /\ pc' = "post_main")]_vars

---------------------------------------------------------------------------
(* SpecTick: the scheduler loop with its two readings of the clock.  A     *)
(* tick reads the clock at line 1538 for current_minute, and              *)
(* should_post_main_content reads it again at line 1467; the statements    *)
(* between the two (the heartbeat, write_log) take time.  The process can  *)
(* be started at any second.                                               *)

TickRunLength == 90    \* seconds of scheduler ticks explored

\* the seconds at which the process can start, around the slot of 02:00
TickStarts ==
    {FirstSlot - 31, FirstSlot - 1, FirstSlot, FirstSlot + 29, FirstSlot + 59}

TickEnd == FirstSlot + TickRunLength

InitTick ==
    /\ now \in TickStarts
    /\ LET f == <<[month |-> MonthOf(now), reads_used |-> 0, writes_used |-> 0]>>
       IN  /\ quota = load_quota(f, now).quota
           /\ quota_file = load_quota(f, now).file
    /\ last_call = NoCall
    /\ calls = 0
    /\ posted_log = <<>>
    /\ last_post_time = None
    /\ performance_data = NoPerformanceData
    /\ insights \in InsightFiles
    /\ disk = FilesOf(performance_data, insights)
    /\ health = NoHealth
    /\ reply_system = NoReplySystem
    /\ last_checked_minute = None
    /\ pc = "idle"
    /\ job = NoJob
    /\ hist = [NoHist EXCEPT !.writes_at_start = quota.writes_used]

NextTick ==
    \/ now <= TickEnd /\ TickSameMinute
    \/ now <= TickEnd /\ TickNoSlot
    \/ now <= TickEnd /\ TickSlot
    \/ JobStart
    \/ PostGateRefuses
    \/ PostSlotSkipped
    \/ PostNoArticle
    \/ PostPrepared
    \/ PublishConfirmed
    \/ SuccessStep
    \/ SuccessReturn
    \/ StepRaisesRetry
    \/ StepRaisesGiveUp
    \/ PublishRejected
    \/ PublishRetry
    \/ PublishGiveUp
    \/ JobBackup
    \/ JobDone

SpecTick == InitTick /\ [][NextTick]_vars

\* C36: a minute of MAIN_POSTING_TIMES that a tick found different from
\* last_checked_minute is marked as checked only at the end of the main
\* content job run in that tick.
C36_SlotMarkedOnlyAfterJob ==
    [][(last_checked_minute' # last_checked_minute
          /\ last_checked_minute' \in MAIN_POSTING_TIMES)
        => pc = "returned"]_vars

---------------------------------------------------------------------------
(* The counters and the aggregation of an analysis pass, under SpecRecords *)

\* C37: total_analyzed equals the number of records whose analyzed flag is
\* true, also after an analysis pass that ended with an exception.
C37_TotalAnalyzedCountsFlags ==
    performance_data.total_analyzed =
        Cardinality({i \in 1..Len(performance_data.tweets) :
                        performance_data.tweets[i].analyzed})

\* C38: the aggregation steps of an analysis pass never divide by zero: no
\* pass ends with the ZeroDivisionError of an improvement_factor, also when
\* every record without emoji, or without call to action, has score 0.
C38_AggregationNeverRaises ==
    hist.pass # <<>> => ~hist.pass[1].raised

---------------------------------------------------------------------------
(* SpecSlots: get_recommended_time_slot asked for the posting times of a   *)
(* day, on any time_slot_performance an analysis can have left: some of    *)
(* the slots recorded in any order, each with the total of the scores of   *)
(* one tweet or of five.                                                   *)

MaxSlotTotal == 8      \* greatest total engagement of a slot, in half points
MaxSlotCount == 5      \* most tweets counted in a slot

SlotTotals == {0, 3, 4, MaxSlotTotal}
SlotCounts == {1, MaxSlotCount}

\* the posting times asked: three that can be on record, one that is not
AskedSlots == {2 * 60, 4 * 60, 6 * 60, 8 * 60}
RecordedSlots == {2 * 60, 4 * 60, 6 * 60}

RECURSIVE CountProduct(_, _)
CountProduct(count, D) ==
    IF D = {} THEN 1
    ELSE LET s == CHOOSE x \in D : TRUE
         IN  count[s] * CountProduct(count, D \ {s})

\* time_stats of lines 361-377 for the slots D with the given totals and
\* counts, the averages over the common denominator of group_stats
slot_dict(D, total, count) ==
    [s \in D |-> [total_engagement |-> total[s],
                  count |-> count[s],
                  avg_engagement |->
                      total[s] * (CountProduct(count, D) \div count[s])]]

\* the orders in which a dict can hold the keys D
KeyOrders(D) ==
    {keys \in [1..Cardinality(D) -> D] :
        \A i, j \in DOMAIN keys : i # j => keys[i] # keys[j]}

SlotInsights ==
    UNION {{[NoInsights EXCEPT
                !.time_slot_performance = slot_dict(D, total, count),
                !.time_slot_keys = keys] :
              total \in [D -> SlotTotals], count \in [D -> SlotCounts],
              keys \in KeyOrders(D)} : D \in SUBSET RecordedSlots}

InitSlots ==
    /\ now = StartTime
    /\ LET f == <<[month |-> MonthOf(now), reads_used |-> 0, writes_used |-> 0]>>
       IN  /\ quota = load_quota(f, now).quota
           /\ quota_file = load_quota(f, now).file
    /\ last_call = NoCall
    /\ calls = 0
    /\ posted_log = <<>>
    /\ last_post_time = None
    /\ performance_data = NoPerformanceData
    /\ insights \in SlotInsights
    /\ disk = FilesOf(performance_data, insights)
    /\ health = NoHealth
    /\ reply_system = NoReplySystem
    /\ last_checked_minute = None
    /\ pc = "idle"
    /\ job = NoJob
    /\ hist = NoHist

\* get_recommended_time_slot(current_time) is called for one more of the
\* posting times; result holds the answers given so far
AskSlot ==
    \E slot \in AskedSlots :
      /\ last_call.op = "get_recommended_time_slot" =>
            slot \notin DOMAIN last_call.result
      /\ Selected("get_recommended_time_slot",
                  {(IF last_call.op = "get_recommended_time_slot"
                    THEN last_call.result ELSE <<>>)
                     @@ (slot :> get_recommended_time_slot(insights, slot))})

NextSlots == AskSlot

SpecSlots == InitSlots /\ [][NextSlots]_vars

\* C39: with statistics on record, a posting time without statistics is
\* always accepted, and once every recorded posting time has been asked at
\* least one of them was accepted: learning never refuses every slot.
C39_SomeSlotIsAccepted ==
    (last_call.op = "get_recommended_time_slot"
        /\ insights.time_slot_performance # <<>>) =>
      /\ \A s \in DOMAIN last_call.result :
            s \notin DOMAIN insights.time_slot_performance =>
                last_call.result[s]
      /\ DOMAIN insights.time_slot_performance \subseteq DOMAIN last_call.result =>
            \E s \in DOMAIN insights.time_slot_performance : last_call.result[s]

\* every posting time was asked; of three recorded ones, five tweets each,
\* the best was accepted, the worst was refused, the one whose average is
\* exactly 0.8 times the mean was refused by the rounding of the doubles,
\* and the one not on record was accepted
C39_Witness ==
    /\ last_call.op = "get_recommended_time_slot"
    /\ DOMAIN last_call.result = AskedSlots
    /\ DOMAIN insights.time_slot_performance = RecordedSlots
    /\ \A s \in RecordedSlots :
          insights.time_slot_performance[s].count = MaxSlotCount
    /\ insights.time_slot_performance[2 * 60].total_engagement = 3
    /\ insights.time_slot_performance[4 * 60].total_engagement = 4
    /\ insights.time_slot_performance[6 * 60].total_engagement = MaxSlotTotal
    /\ 10 * 3 * insights.time_slot_performance[4 * 60].avg_engagement
          = 8 * SumAvg(insights.time_slot_performance, RecordedSlots)
    /\ ~last_call.result[2 * 60]
    /\ ~last_call.result[4 * 60]
    /\ last_call.result[6 * 60]
    /\ last_call.result[8 * 60]

---------------------------------------------------------------------------
(* SpecReply: the TargetedReplySystem, with execute_reply_campaign called  *)
(* as run_reply_job calls it (lines 1498-1504), on the same day or a day   *)
(* later.  The scheduler of the process never makes this call, since       *)
(* should_run_reply_campaign returns False (line 1472); SpecReply is what  *)
(* the class does once run_reply_job is called.  The campaign is taken     *)
(* from one reading of the clock or wait to the next: can_reply_today at   *)
(* the head of a loop body, the search, generate_reply, post_reply and the *)
(* sleep are steps of their own.  The search returns any tweets; the       *)
(* search, generate_reply, create_tweet and the writing of                 *)
(* replied_tweets.json can fail; the calls of the APIs take up to MaxWait  *)
(* seconds in all.                                                         *)

daily_reply_limit == 3
REPLY_SLEEP == 60
SearchCount == 2       \* the entries of the list searches, lines 951-954

MaxCampaigns == 2      \* calls of execute_reply_campaign explored
MaxReplyDays == 1      \* days the clock moves on between campaigns
MaxFound == 2          \* tweets a search returns at most
MaxWait == 1           \* seconds spent waiting for the APIs in a run

TweetIds == {1, 2, 3}

\* tweets.data of search_recent_tweets: up to MaxFound different tweets
SearchResults ==
    {f \in UNION {[1..n -> TweetIds] : n \in 0..MaxFound} :
        \A i, j \in DOMAIN f : i # j => f[i] # f[j]}

\* the seconds search_recent_tweets, the OpenAI call or create_tweet can
\* take, MaxWait seconds in all being spent on such calls in a run
Waits == 0..(MaxWait - hist.lagged)

\* datetime.now(pytz.UTC).strftime("%Y-%m-%d"), as a day number
DateOf(t) == t \div DAY_SECONDS

\* save_reply_log, lines 831-834
save_reply_log(rs) == [rs EXCEPT !.file = <<rs.reply_log>>]

\* lines 840-845: the reply_log that replaces the one of an earlier date
reply_log_next_day(log, t) ==
    [date |-> DateOf(t), today_count |-> 0, replied_ids |-> <<>>]

\* can_reply_today(), lines 836-848, called at time t, the file written
\* (saved) or open() raising: the reply system afterwards, whether the call
\* raised, and its answer
can_reply_today(rs, t, saved) ==
    LET fresh == rs.reply_log.date # DateOf(t)
        rs2 == IF fresh
               THEN [rs EXCEPT !.reply_log = reply_log_next_day(rs.reply_log, t)]
               ELSE rs
    IN  IF fresh /\ ~saved
        THEN [rs |-> rs2, raised |-> TRUE, ok |-> FALSE]
        ELSE [rs |-> IF fresh THEN save_reply_log(rs2) ELSE rs2,
              raised |-> FALSE,
              ok |-> rs2.reply_log.today_count < daily_reply_limit]

\* search_targeted_tweets(query), lines 850-875, the API answering found
\* (or raising): the new tweets and the quota afterwards
search_targeted_tweets(rs, q, found, raises) ==
    IF ~can_read(q, 1) THEN [tweets |-> <<>>, quota |-> q]
    ELSE IF raises THEN [tweets |-> <<>>, quota |-> q]
    ELSE [tweets |-> SelectSeq(found,
                       LAMBDA id : ~\E k \in DOMAIN rs.reply_log.replied_ids :
                                       rs.reply_log.replied_ids[k] = id),
          quota |-> use_read(q, 1)]

\* post_reply(tweet_id, reply_text), lines 921-943, create_tweet raising or
\* not, and the file written (saved) or open() raising at line 936 after the
\* count and the id were changed in memory: the reply system and quota
\* afterwards, whether the reply was posted, and what the call returns
post_reply(rs, q, id, raises, saved) ==
    IF ~can_write(q, 1) \/ raises
    THEN [rs |-> rs, quota |-> q, posted |-> FALSE, ok |-> FALSE]
    ELSE LET rs2 == [rs EXCEPT !.reply_log.today_count = @ + 1,
                               !.reply_log.replied_ids = Append(@, id)]
         IN  [rs |-> IF saved THEN save_reply_log(rs2) ELSE rs2,
              quota |-> use_write(q, 1), posted |-> TRUE, ok |-> saved]

\* the seconds at which run_reply_job can be called: 01:59:00; 23:59:30, from
\* where the sleep after a reply ends on the next day; 23:59:59, from where a
\* call of the API does
ReplyStarts == {StartTime, DAY_SECONDS - TICK_SLEEP, DAY_SECONDS - 1}

InitReply ==
    /\ now \in ReplyStarts
    /\ \E r \in {0, READ_CAP - 1}, w \in {0, WRITE_CAP - 1} :
         LET f == <<[month |-> MonthOf(now), reads_used |-> r, writes_used |-> w]>>
         IN  /\ quota = load_quota(f, now).quota
             /\ quota_file = load_quota(f, now).file
    /\ last_call = NoCall
    /\ calls = 0
    /\ disk = NoDisk
    /\ health = NoHealth
    /\ reply_system = [NoReplySystem EXCEPT !.reply_log = NoReplyLog(now)]
    /\ posted_log = <<>>
    /\ last_post_time = None
    /\ performance_data = NoPerformanceData
    /\ insights = NoInsights
    /\ last_checked_minute = None
    /\ pc = "idle"
    /\ job = NoJob
    /\ hist = NoHist

replyRest ==
    <<last_call, posted_log, last_post_time, performance_data, insights,
      last_checked_minute, pc, job, disk, health>>

\* execute_reply_campaign has returned, or raised into run_reply_job
CampaignOver == NoReplySystem.run

\* lines 945-954: execute_reply_campaign() is called; it returns at once
\* when the daily limit is reached
CampaignBegin ==
    /\ reply_system.run.pc = "idle"
    /\ calls < MaxCampaigns
    /\ calls' = calls + 1
    /\ \E saved \in BOOLEAN :
         LET c == can_reply_today(reply_system, now, saved)
         IN  reply_system' =
               [c.rs EXCEPT !.run = IF c.ok
                                    THEN [CampaignOver EXCEPT !.pc = "searches",
                                                              !.search = 1]
                                    ELSE CampaignOver]
    /\ UNCHANGED <<now, quota, quota_file, hist, replyRest>>

\* lines 956-958: the head of the loop over searches.  The loop ends with
\* the list, can_reply_today not being called then, or when can_reply_today,
\* called at the head of the loop body, finds the daily limit reached
CampaignNextSearch ==
    /\ reply_system.run.pc = "searches"
    /\ IF reply_system.run.search > SearchCount
       THEN reply_system' = [reply_system EXCEPT !.run = CampaignOver]
       ELSE \E saved \in BOOLEAN :
              LET c == can_reply_today(reply_system, now, saved)
              IN  reply_system' =
                    [c.rs EXCEPT !.run = IF c.ok
                                         THEN [@ EXCEPT !.pc = "search"]
                                         ELSE CampaignOver]
    /\ UNCHANGED <<now, quota, quota_file, calls, hist, replyRest>>

\* lines 960-961: search_targeted_tweets is called; the search takes its
\* time when the read quota lets it be made
CampaignSearch ==
    /\ reply_system.run.pc = "search"
    /\ \E found \in SearchResults, raises \in BOOLEAN, wait \in Waits :
         LET r == search_targeted_tweets(reply_system, quota, found, raises)
         IN  /\ reply_system' =
                  [reply_system EXCEPT !.run.pc = "tweets",
                                       !.run.search = @ + 1,
                                       !.run.tweets = r.tweets]
             /\ quota' = r.quota
             /\ quota_file' = save_after(quota, quota', quota_file)
             /\ now' = IF can_read(quota, 1) THEN now + wait ELSE now
             /\ hist' = [hist EXCEPT !.lagged = @ + (now' - now)]
    /\ UNCHANGED <<calls, replyRest>>

\* lines 963-965: the head of the loop over the tweets of the search.  The
\* loop ends with the tweets, can_reply_today not being called then, or when
\* can_reply_today, called at the head of the loop body, finds the daily
\* limit reached
CampaignNextTweet ==
    /\ reply_system.run.pc = "tweets"
    /\ IF reply_system.run.tweets = <<>>
       THEN reply_system' = [reply_system EXCEPT !.run.pc = "searches"]
       ELSE \E saved \in BOOLEAN :
              LET c == can_reply_today(reply_system, now, saved)
              IN  reply_system' =
                    IF c.raised THEN [c.rs EXCEPT !.run = CampaignOver]
                    ELSE IF c.ok
                    THEN [c.rs EXCEPT !.run.pc = "generate",
                                      !.run.tweet = Head(reply_system.run.tweets),
                                      !.run.tweets = Tail(@)]
                    ELSE [c.rs EXCEPT !.run.pc = "searches",
                                      !.run.tweets = <<>>]
    /\ UNCHANGED <<now, quota, quota_file, calls, hist, replyRest>>

\* lines 966-967: generate_reply returns a text, or None when the OpenAI
\* call raised
CampaignGenerate ==
    /\ reply_system.run.pc = "generate"
    /\ \E text \in BOOLEAN, wait \in Waits :
         /\ reply_system' =
              [reply_system EXCEPT !.run.pc = IF text THEN "post" ELSE "tweets",
                                   !.run.tweet = IF text THEN @ ELSE 0]
         /\ now' = now + wait
         /\ hist' = [hist EXCEPT !.lagged = @ + wait]
    /\ UNCHANGED <<quota, quota_file, calls, replyRest>>

\* lines 968-969: post_reply is called; create_tweet takes its time when
\* the write quota lets it be called
CampaignPost ==
    /\ reply_system.run.pc = "post"
    /\ \E raises \in BOOLEAN, saved \in BOOLEAN, wait \in Waits :
         LET id == reply_system.run.tweet
             r == post_reply(reply_system, quota, id, raises, saved)
         IN  /\ reply_system' =
                  [r.rs EXCEPT !.run.pc = IF r.ok THEN "sleep" ELSE "tweets",
                               !.run.tweet = 0]
             /\ quota' = r.quota
             /\ quota_file' = save_after(quota, quota', quota_file)
             /\ now' = IF can_write(quota, 1) THEN now + wait ELSE now
             /\ hist' = [hist EXCEPT !.replies = IF r.posted THEN Append(@, id)
                                                  ELSE @,
                                     !.lagged = @ + (now' - now)]
    /\ UNCHANGED <<calls, replyRest>>

\* lines 970-972: time.sleep(60) after a reply that post_reply reported
CampaignSleep ==
    /\ reply_system.run.pc = "sleep"
    /\ now' = now + REPLY_SLEEP
    /\ reply_system' = [reply_system EXCEPT !.run.pc = "tweets"]
    /\ UNCHANGED <<quota, quota_file, calls, hist, replyRest>>

\* a day passes between two campaigns
ReplyDayPasses ==
    /\ reply_system.run.pc = "idle"
    /\ DateOf(now) < MaxReplyDays
    /\ now' = now + DAY_SECONDS
    /\ UNCHANGED <<quota, quota_file, calls, reply_system, hist, replyRest>>

NextReply ==
    \/ CampaignBegin
    \/ CampaignNextSearch
    \/ CampaignSearch
    \/ CampaignNextTweet
    \/ CampaignGenerate
    \/ CampaignPost
    \/ CampaignSleep
    \/ ReplyDayPasses

SpecReply == InitReply /\ [][NextReply]_vars

\* C40: no tweet id is replied to twice, and the tweets a search has
\* returned hold no id that a reply was posted to before, also when the
\* date has changed since.
C40_NoSecondReply ==
    /\ \A i, j \in 1..Len(hist.replies) :
          i # j => hist.replies[i] # hist.replies[j]
    /\ \A k \in 1..Len(reply_system.run.tweets) :
          \A i \in 1..Len(hist.replies) :
             hist.replies[i] # reply_system.run.tweets[k]

=============================================================================
